---- MODULE Spec2Model ----
(***************************************************************************)
(* Submission intake (SubmissionForm), the backing store (submissions      *)
(* table, storage bucket, marks table) and the administrator's grading     *)
(* panel (Admin) of the assignment portal.                                 *)
(*                                                                         *)
(* Text is modelled as a sequence of one-character strings, so that        *)
(* endsWith, trim, split, parseInt and the template strings are computed   *)
(* character by character, as the code computes them.                      *)
(***************************************************************************)
EXTENDS Integers, Sequences, FiniteSets, TLC

(***************************************************************************)
(* Text helpers                                                            *)
(***************************************************************************)
None == <<>>
Some(x) == <<x>>

Whitespace == {" "}
Digits == {"0", "1", "2", "3", "4", "5", "6", "7", "8", "9"}

DigitVal(c) ==
    CASE c = "0" -> 0 [] c = "1" -> 1 [] c = "2" -> 2 [] c = "3" -> 3
      [] c = "4" -> 4 [] c = "5" -> 5 [] c = "6" -> 6 [] c = "7" -> 7
      [] c = "8" -> 8 [] c = "9" -> 9

\* String.prototype.endsWith
EndsWith(s, suffix) ==
    /\ Len(s) >= Len(suffix)
    /\ SubSeq(s, Len(s) - Len(suffix) + 1, Len(s)) = suffix

RECURSIVE TrimStart(_)
TrimStart(s) ==
    IF s # <<>> /\ Head(s) \in Whitespace THEN TrimStart(Tail(s)) ELSE s

RECURSIVE TrimEnd(_)
TrimEnd(s) ==
    IF s # <<>> /\ s[Len(s)] \in Whitespace
    THEN TrimEnd(SubSeq(s, 1, Len(s) - 1))
    ELSE s

\* String.prototype.trim
Trim(s) == TrimEnd(TrimStart(s))

LowerChar(c) ==
    CASE c = "P" -> "p" [] c = "Y" -> "y" [] c = "T" -> "t" [] c = "X" -> "x"
      [] OTHER -> c

\* String.prototype.toLowerCase
ToLowerCase(s) == [i \in 1..Len(s) |-> LowerChar(s[i])]

\* the index of the last "." of s, 0 when s has none
LastDot(s) ==
    LET dots == {i \in 1..Len(s) : s[i] = "."}
    IN  IF dots = {} THEN 0 ELSE CHOOSE i \in dots : \A j \in dots : j <= i

\* fileName.split(".").pop()?.toLowerCase()
Extension(fileName) ==
    ToLowerCase(SubSeq(fileName, LastDot(fileName) + 1, Len(fileName)))

(***************************************************************************)
(* Program constants of the submission form                                *)
(***************************************************************************)
PyExtension == <<".", "p", "y">>
MaxFileBytes == 5 * 1024 * 1024

Classes == {<<"6", "t", "h">>, <<"7", "t", "h">>, <<"8", "t", "h">>,
            <<"9", "t", "h">>, <<"1", "0", "t", "h">>}
Sections == {<<"A">>, <<"B">>, <<"C">>}

Absent == "<absent>"
NoMessage == "<null>"
OnlyPyMsg == "Only Python (.py) files are allowed"
SizeMsg == "File size must be less than 5MB"
NameRequiredMsg == "Name is required"
ClassRequiredMsg == "Class is required"
SectionRequiredMsg == "Section is required"
FileRequiredMsg == "Python file is required"
ValidateFailedMsg == "Failed to validate submission. Try again."
FileExistsMsg == "File already exists. Contact your teacher for resubmission."
UploadFailedMsg == "Upload failed. Please try again."
InsertFailedMsg == "Upload succeeded, but saving submission failed."
\* the text after the check-mark sign the source puts before it
SubmissionOkMsg == "Submission successful!"

(***************************************************************************)
(* Inputs explored                                                         *)
(***************************************************************************)
Submitters == {"s1", "s2"}
IntakeSubmitters == {"s1"}

NameAsha == <<"a">>
NameRavi == <<"r">>
NameBlank == <<" ">>
Class10 == <<"1", "0", "t", "h">>
SectionA == <<"A">>
NameMira == <<"m">>
NameKiran == <<"k">>
Class9 == <<"9", "t", "h">>
SectionB == <<"B">>

HwPy == <<"h", ".", "p", "y">>
LabPy == <<"l", ".", "p", "y">>
HwTxt == <<"h", ".", "t", "x", "t">>
HwUpper == <<"h", ".", "P", "Y">>

File(n, sz, c) == [name |-> n, size |-> sz, content |-> c]

\* files offered to the form: good ones, one exactly at the ceiling, one byte
\* over it, and names without the accepted extension (".txt", ".PY") of either size
IntakeFiles ==
    { File(HwPy, 1024, "c1"),
      File(LabPy, MaxFileBytes, "c2"),
      File(HwPy, MaxFileBytes + 1, "c3"),
      File(HwTxt, 1024, "c4"),
      File(HwUpper, MaxFileBytes + 1, "c5") }

IntakeNames == {<<>>, NameBlank, NameAsha}
IntakeClasses == {<<>>, Class10}
IntakeSections == {<<>>, SectionA}

\* a name and a file name that carry the class and the section themselves:
\* "a_10th_A" and "10th_A_h.py"
NameAshaClass == NameAsha \o <<"_">> \o Class10 \o <<"_">> \o SectionA
ClassHwPy == Class10 \o <<"_">> \o SectionA \o <<"_">> \o HwPy

\* forms of the concurrent submitters
SubmitNames == {NameAsha, NameRavi}
SubmitFiles == {File(HwPy, 1024, "c1"), File(LabPy, 2048, "c2")}

VARIABLES
    \* SubmissionForm state, one form per submitter
    formData, uploadedFile, errors, isSubmitting, successMessage, errorMessage,
    \* position of a running handleSubmit and the values it captured
    pc, req,
    \* backing store
    submissionsTable, storageObjects, marksTable,
    \* Admin state
    submissions, marks, selectedSubmission, fileContent, markInput,
    showPreviewModal, toast,
    \* position of a running saveMark / previewFile and the values captured
    savePc, saveReq, previewPc,
    \* observation: the last form event, what each attempt did, and the
    \* last saveMark that wrote
    lastEvent, attempt, saveLog,
    \* one mark as the results table and the report render it
    rowMark, tableGrade, reportGrade,
    \* the filters, the rows of the results table as rendered, and the
    \* document generatePDF saved last
    classFilter, sectionFilter, tableRows, report,
    \* what generatePDF drew last, with the cursor and the page of each item
    drawn,
    \* the change feed of the submissions table: the channel of the
    \* administrator, the events on their way, the running fetchSubmissions
    \* and the rows it was answered; observation: the ids the fetch returned
    \* and the ids events delivered
    channel, feedQueue, fetchPc, fetchSnap, feedLog,
    \* the file_extensions table and the time of the store; the list of the
    \* Admin page with its toggleExtension call under way; the state of
    \* FileExtensionManager with the position of a running saveChanges;
    \* observation: the last update of the table
    extTable, clock, fileExtensions, togglePc,
    extensions, loading, saving, message, savingPc, regLog,
    \* the signed-in user of the Admin page, the signIn or signOut under way,
    \* and the fetchMarks and fetchFileExtensions its effect has sent
    user, authPc, marksPc, extPc

formVars == <<formData, uploadedFile, errors, isSubmitting, successMessage,
              errorMessage, pc, req>>
storeVars == <<submissionsTable, storageObjects>>
adminVars == <<marksTable, submissions, marks, selectedSubmission, fileContent,
               markInput, showPreviewModal, toast, savePc, saveReq, previewPc,
               saveLog>>
obsVars == <<lastEvent, attempt>>
gradeVars == <<rowMark, tableGrade, reportGrade>>
reportVars == <<classFilter, sectionFilter, tableRows, report, drawn>>
feedVars == <<channel, feedQueue, fetchPc, fetchSnap, feedLog>>
registryVars == <<extTable, clock, fileExtensions, togglePc,
                  extensions, loading, saving, message, savingPc, regLog>>
sessionVars == <<user, authPc, marksPc, extPc>>
extVars == <<reportVars, feedVars, registryVars, sessionVars>>
vars == <<formVars, storeVars, adminVars, obsVars, gradeVars, extVars>>

(***************************************************************************)
(* SubmissionForm                                                          *)
(***************************************************************************)
EmptyForm == [name |-> <<>>, class |-> <<>>, section |-> <<>>]
NoErrors == [name |-> Absent, class |-> Absent, section |-> Absent, file |-> Absent]
NoRequest == <<>>
\* observation of an attempt: what it found and did, the data of the attempt
\* before it when that one failed at the insert, and whether it sends the
\* data of that failed attempt again
NoAttempt == [dupAtStart |-> FALSE, writes |-> 0, outcome |-> "none",
              failed |-> <<>>, retry |-> FALSE]
Tuple(r) == <<r.name, r.cls, r.section, r.fileName>>
Event(who, op, file) == [who |-> who, op |-> op, file |-> file]

\* a JavaScript truthy test of an errors[...] entry
Truthy(e) == e # Absent /\ e # ""

\* validateFile, size test first
ValidateFileError_sizeFirst(file) ==
    IF file.size > MaxFileBytes THEN SizeMsg
    ELSE IF ~EndsWith(file.name, PyExtension) THEN OnlyPyMsg
    ELSE ""

\* validateFile without the size test
ValidateFileError_noSize(file) ==
    IF ~EndsWith(file.name, PyExtension) THEN OnlyPyMsg ELSE ""

\* validateFile refusing a file of exactly the ceiling
ValidateFileError_atCeiling(file) ==
    IF ~EndsWith(file.name, PyExtension) THEN OnlyPyMsg
    ELSE IF file.size >= MaxFileBytes THEN SizeMsg
    ELSE ""

\* validateFile: the message it sets on errors.file, "" when it returns true
ValidateFileError(file) ==
    IF ~EndsWith(file.name, PyExtension) THEN OnlyPyMsg
    ELSE IF file.size > MaxFileBytes THEN SizeMsg
    ELSE ""

\* validateFile accepting every file
validateFile_any(file) == TRUE

validateFile(file) == ValidateFileError(file) = ""

handleFileSelect(s, file) ==
    /\ IF validateFile(file)
       THEN /\ uploadedFile' = [uploadedFile EXCEPT ![s] =
                                    Some([file |-> file, name |-> file.name])]
            /\ errors' = [errors EXCEPT ![s].file = ""]
       ELSE /\ errors' = [errors EXCEPT ![s].file = ValidateFileError(file)]
            /\ UNCHANGED uploadedFile
    /\ lastEvent' = Event(s, "select", Some(file))
    /\ UNCHANGED <<formData, isSubmitting, successMessage, errorMessage, pc, req,
                   storeVars, adminVars, gradeVars, extVars, attempt>>

removeFile(s) ==
    /\ uploadedFile[s] # None
    /\ uploadedFile' = [uploadedFile EXCEPT ![s] = None]
    /\ lastEvent' = Event(s, "remove", None)
    /\ UNCHANGED <<formData, errors, isSubmitting, successMessage, errorMessage,
                   pc, req, storeVars, adminVars, gradeVars, extVars, attempt>>

handleInputChange(s, field, value) ==
    /\ formData' = [formData EXCEPT ![s][field] = value]
    /\ errors' = IF Truthy(errors[s][field])
                 THEN [errors EXCEPT ![s][field] = ""]
                 ELSE errors
    /\ lastEvent' = Event(s, "input", None)
    /\ UNCHANGED <<uploadedFile, isSubmitting, successMessage, errorMessage, pc,
                   req, storeVars, adminVars, gradeVars, extVars, attempt>>

\* validateForm stopping at the first field it refuses
ValidateFormErrors_firstOnly(form, upload) ==
    IF Trim(form.name) = <<>> THEN [NoErrors EXCEPT !.name = NameRequiredMsg]
    ELSE IF Trim(form.class) = <<>> THEN [NoErrors EXCEPT !.class = ClassRequiredMsg]
    ELSE IF Trim(form.section) = <<>> THEN [NoErrors EXCEPT !.section = SectionRequiredMsg]
    ELSE IF upload = None THEN [NoErrors EXCEPT !.file = FileRequiredMsg]
    ELSE NoErrors

\* validateForm: the errors object it builds
ValidateFormErrors(form, upload) ==
    [name    |-> IF Trim(form.name) = <<>> THEN NameRequiredMsg ELSE Absent,
     class   |-> IF Trim(form.class) = <<>> THEN ClassRequiredMsg ELSE Absent,
     section |-> IF Trim(form.section) = <<>> THEN SectionRequiredMsg ELSE Absent,
     file    |-> IF upload = None THEN FileRequiredMsg ELSE Absent]

validateForm(form, upload) == ValidateFormErrors(form, upload) = NoErrors

\* `${name}_${cls}_${section}_${fileName}` under `${cls}/${section}/`
FilePath(name, cls, section, fileName) ==
    cls \o <<"/">> \o section \o <<"/">> \o
    name \o <<"_">> \o cls \o <<"_">> \o section \o <<"_">> \o fileName

\* the rows the duplicate query selects
ExistingRows(table, r) ==
    SelectSeq(table, LAMBDA row :
        /\ row.student_name = r.name
        /\ row.class = r.cls
        /\ row.section = r.section
        /\ row.filename = r.fileName)

\* existing && existing.length > 1
IsDuplicate_moreThanOne(existing) == Len(existing) > 1

\* existing && existing.length > 0
IsDuplicate(existing) == Len(existing) > 0

\* storage upload with upsert: true never refuses
UploadRefused_upsert(objects, path) == FALSE

\* storage upload with upsert: false refuses a path that holds an object
UploadRefused(objects, path) == \E o \in objects : o.path = path

Request(form, upload) ==
    [name     |-> form.name,
     cls      |-> form.class,
     section  |-> form.section,
     fileName |-> upload.name,
     ext      |-> Extension(upload.name),
     file     |-> upload.file,
     filePath |-> FilePath(form.name, form.class, form.section, upload.name)]

\* handleSubmit up to its first await (the duplicate query is sent)
handleSubmitBegin(s) ==
    /\ pc[s] = "idle"
    /\ ~isSubmitting[s]
    /\ errors' = [errors EXCEPT ![s] = ValidateFormErrors(formData[s], uploadedFile[s])]
    /\ lastEvent' = Event(s, "submit", None)
    /\ IF ~validateForm(formData[s], uploadedFile[s]) \/ uploadedFile[s] = None
       THEN /\ attempt' = [attempt EXCEPT ![s] =
                              [dupAtStart |-> FALSE, writes |-> 0, outcome |-> "invalid",
                               failed |-> attempt[s].failed, retry |-> FALSE]]
            /\ UNCHANGED <<isSubmitting, successMessage, errorMessage, pc, req>>
       ELSE LET r == Request(formData[s], uploadedFile[s][1])
            IN  /\ isSubmitting' = [isSubmitting EXCEPT ![s] = TRUE]
                /\ errorMessage' = [errorMessage EXCEPT ![s] = NoMessage]
                /\ successMessage' = [successMessage EXCEPT ![s] = NoMessage]
                /\ req' = [req EXCEPT ![s] = Some(r)]
                /\ pc' = [pc EXCEPT ![s] = "query"]
                /\ attempt' = [attempt EXCEPT ![s] =
                      [dupAtStart |-> Len(ExistingRows(submissionsTable, r)) > 0,
                       writes |-> 0, outcome |-> "running",
                       failed |-> <<>>, retry |-> attempt[s].failed = <<Tuple(r)>>]]
    /\ UNCHANGED <<formData, uploadedFile, storeVars, adminVars, gradeVars, extVars>>

\* an early return that leaves isSubmitting set
Stop_keepsSubmitting(s, msg, outcome) ==
    /\ errorMessage' = [errorMessage EXCEPT ![s] = msg]
    /\ pc' = [pc EXCEPT ![s] = "idle"]
    /\ req' = [req EXCEPT ![s] = NoRequest]
    /\ attempt' = [attempt EXCEPT ![s].outcome = outcome,
                                  ![s].failed = IF outcome = "insertError"
                                                THEN <<Tuple(req[s][1])>> ELSE <<>>]
    /\ UNCHANGED <<formData, uploadedFile, errors, successMessage, isSubmitting>>

\* an early return of handleSubmit with an error message
Stop(s, msg, outcome) ==
    /\ errorMessage' = [errorMessage EXCEPT ![s] = msg]
    /\ isSubmitting' = [isSubmitting EXCEPT ![s] = FALSE]
    /\ pc' = [pc EXCEPT ![s] = "idle"]
    /\ req' = [req EXCEPT ![s] = NoRequest]
    /\ attempt' = [attempt EXCEPT ![s].outcome = outcome,
                                  ![s].failed = IF outcome = "insertError"
                                                THEN <<Tuple(req[s][1])>> ELSE <<>>]
    /\ UNCHANGED <<formData, uploadedFile, errors, successMessage>>

\* the failure of the duplicate query reported as a duplicate
queryError_asDuplicate(s) ==
    /\ pc[s] = "query"
    /\ Stop(s, FileExistsMsg, "queryError")
    /\ lastEvent' = Event(s, "response", None)
    /\ UNCHANGED <<storeVars, adminVars, gradeVars, extVars>>

\* the duplicate query fails
queryError(s) ==
    /\ pc[s] = "query"
    /\ Stop(s, ValidateFailedMsg, "queryError")
    /\ lastEvent' = Event(s, "response", None)
    /\ UNCHANGED <<storeVars, adminVars, gradeVars, extVars>>

\* the duplicate query answers with a matching row
queryDuplicate(s) ==
    /\ pc[s] = "query"
    /\ IsDuplicate(ExistingRows(submissionsTable, req[s][1]))
    /\ Stop(s, FileExistsMsg, "duplicate")
    /\ lastEvent' = Event(s, "response", None)
    /\ UNCHANGED <<storeVars, adminVars, gradeVars, extVars>>

\* the duplicate query answers with no row: the storage upload is sent
queryClear(s) ==
    /\ pc[s] = "query"
    /\ ~IsDuplicate(ExistingRows(submissionsTable, req[s][1]))
    /\ pc' = [pc EXCEPT ![s] = "upload"]
    /\ attempt' = [attempt EXCEPT ![s].writes = @ + 1]
    /\ lastEvent' = Event(s, "response", None)
    /\ UNCHANGED <<formData, uploadedFile, errors, isSubmitting, successMessage,
                   errorMessage, req, storeVars, adminVars, gradeVars, extVars>>

\* the storage refuses the upload because the path holds an object
uploadExists(s) ==
    /\ pc[s] = "upload"
    /\ UploadRefused(storageObjects, req[s][1].filePath)
    /\ Stop(s, FileExistsMsg, "uploadExists")
    /\ lastEvent' = Event(s, "response", None)
    /\ UNCHANGED <<storeVars, adminVars, gradeVars, extVars>>

\* the upload fails for another reason
uploadError(s) ==
    /\ pc[s] = "upload"
    /\ Stop(s, UploadFailedMsg, "uploadError")
    /\ lastEvent' = Event(s, "response", None)
    /\ UNCHANGED <<storeVars, adminVars, gradeVars, extVars>>

\* the upload succeeds: the object is stored and the insert is sent
uploadOk(s) ==
    /\ pc[s] = "upload"
    /\ ~UploadRefused(storageObjects, req[s][1].filePath)
    /\ storageObjects' = storageObjects \cup
           {[path |-> req[s][1].filePath, file |-> req[s][1].file]}
    /\ pc' = [pc EXCEPT ![s] = "insert"]
    /\ attempt' = [attempt EXCEPT ![s].writes = @ + 1]
    /\ lastEvent' = Event(s, "response", None)
    /\ UNCHANGED <<formData, uploadedFile, errors, isSubmitting, successMessage,
                   errorMessage, req, submissionsTable, adminVars, gradeVars, extVars>>

\* the insert fails
insertError(s) ==
    /\ pc[s] = "insert"
    /\ Stop(s, InsertFailedMsg, "insertError")
    /\ lastEvent' = Event(s, "response", None)
    /\ UNCHANGED <<storeVars, adminVars, gradeVars, extVars>>

\* the row handleSubmit inserts; the table assigns the id
SubmissionRow(id, r) ==
    [id           |-> id,
     student_name |-> r.name,
     class        |-> r.cls,
     section      |-> r.section,
     filename     |-> r.fileName,
     extension    |-> r.ext,
     file_path    |-> r.filePath]

\* the insert succeeds: success message, form reset
insertOk(s) ==
    /\ pc[s] = "insert"
    /\ submissionsTable' = Append(submissionsTable,
           SubmissionRow(Len(submissionsTable) + 1, req[s][1]))
    /\ successMessage' = [successMessage EXCEPT ![s] = SubmissionOkMsg]
    /\ uploadedFile' = [uploadedFile EXCEPT ![s] = None]
    /\ formData' = [formData EXCEPT ![s] = EmptyForm]
    /\ isSubmitting' = [isSubmitting EXCEPT ![s] = FALSE]
    /\ pc' = [pc EXCEPT ![s] = "idle"]
    /\ req' = [req EXCEPT ![s] = NoRequest]
    /\ attempt' = [attempt EXCEPT ![s].outcome = "success"]
    /\ lastEvent' = Event(s, "response", None)
    \* the table publishes the INSERT to the channels that have joined
    /\ feedQueue' = IF channel = "joined"
                    THEN Append(feedQueue,
                                SubmissionRow(Len(submissionsTable) + 1, req[s][1]))
                    ELSE feedQueue
    /\ UNCHANGED <<errors, errorMessage, storageObjects, adminVars, gradeVars,
                   reportVars, channel, fetchPc, fetchSnap, feedLog, registryVars, sessionVars>>

\* an awaited call rejects: the catch block reports it and finally resets
\* isSubmitting
handleSubmitThrows(s) ==
    /\ pc[s] \in {"query", "upload", "insert"}
    /\ Stop(s, UploadFailedMsg, "thrown")
    /\ lastEvent' = Event(s, "response", None)
    /\ UNCHANGED <<storeVars, adminVars, gradeVars, extVars>>

handleSubmitStep(s) ==
    \/ handleSubmitBegin(s)
    \/ queryError(s)
    \/ queryDuplicate(s)
    \/ queryClear(s)
    \/ uploadExists(s)
    \/ uploadError(s)
    \/ uploadOk(s)
    \/ insertError(s)
    \/ insertOk(s)

(***************************************************************************)
(* Admin: marks                                                            *)
(***************************************************************************)
StoreErrorMsg == "store error"
EnterMarksMsg == "Please enter marks between 0 and 100."
MarksSavedMsg == "Marks saved"
DownloadFailedText == "Failed to load file"
UnexpectedText == "Unexpected error while loading file."
TextExtensions == {<<"p", "y">>, <<"t", "x", "t">>, <<"c", "s", "v">>,
                   <<"j", "s", "o", "n">>}

\* a toast; the name and the number a message embeds are left out
Toast(text, type) == [message |-> text, type |-> type]

\* what the administrator may type into the mark input:
\* "72", "100", "72.5", "101", "-1", "a"
MarkInputs ==
    { <<"7", "2">>, <<"1", "0", "0">>, <<"7", "2", ".", "5">>, <<"1", "0", "1">>,
      <<"-", "1">>, <<"a">> }

RECURSIVE DigitPrefix(_)
\* the longest prefix of s made of decimal digits
DigitPrefix(s) ==
    IF s # <<>> /\ Head(s) \in Digits
    THEN <<Head(s)>> \o DigitPrefix(Tail(s))
    ELSE <<>>

DigitChar(d) ==
    CASE d = 0 -> "0" [] d = 1 -> "1" [] d = 2 -> "2" [] d = 3 -> "3"
      [] d = 4 -> "4" [] d = 5 -> "5" [] d = 6 -> "6" [] d = 7 -> "7"
      [] d = 8 -> "8" [] d = 9 -> "9"

RECURSIVE NatToString(_)
NatToString(n) ==
    IF n < 10 THEN <<DigitChar(n)>>
    ELSE NatToString(n \div 10) \o <<DigitChar(n % 10)>>

\* Number.prototype.toString of an integer
NumberToString(n) == IF n < 0 THEN <<"-">> \o NatToString(0 - n) ELSE NatToString(n)

RECURSIVE DecimalValue(_)
DecimalValue(ds) ==
    IF ds = <<>> THEN 0
    ELSE 10 * DecimalValue(SubSeq(ds, 1, Len(ds) - 1)) + DigitVal(ds[Len(ds)])

\* parseInt(text): leading whitespace skipped, an optional sign, then the
\* digits up to the first character that is none; NaN when there is no digit
parseInt(text) ==
    LET t == TrimStart(text)
        signed == t # <<>> /\ Head(t) \in {"-", "+"}
        body == IF signed THEN Tail(t) ELSE t
        ds == DigitPrefix(body)
    IN  IF ds = <<>> THEN [nan |-> TRUE, value |-> 0]
        ELSE [nan |-> FALSE,
              value |-> IF signed /\ Head(t) = "-"
                        THEN 0 - DecimalValue(ds) ELSE DecimalValue(ds)]

MaxMark == 100

\* the range test without its upper limit
MarkRejected_noUpper(m) == m.nan \/ m.value < 0

\* isNaN(markValue) || markValue < 0 || markValue > 100
MarkRejected(m) == m.nan \/ m.value < 0 \/ m.value > MaxMark

\* marks.find((m) => m.submission_id === id)
FindMark(list, id) ==
    LET hits == {i \in 1..Len(list) : list[i].submission_id = id}
    IN  IF hits = {} THEN None
        ELSE Some(list[CHOOSE i \in hits : \A j \in hits : i <= j])

\* the marks table is kept in ascending created_at order; the query orders
\* by created_at descending
Reverse(s) == [i \in 1..Len(s) |-> s[Len(s) + 1 - i]]

FetchedMarks(table) == Reverse(table)

MarkRow(id, sub, value) ==
    [id            |-> id,
     student_name  |-> sub.student_name,
     class         |-> sub.class,
     section       |-> sub.section,
     marks         |-> value,
     submission_id |-> sub.id]

FreshMarkId(table) ==
    IF table = <<>> THEN 1
    ELSE 1 + (CHOOSE n \in {table[i].id : i \in 1..Len(table)} :
                 \A i \in 1..Len(table) : table[i].id <= n)

\* a plain insert: a new row whatever the table holds
UpsertMark_insert(table, sub, value) ==
    Append(table, MarkRow(FreshMarkId(table), sub, value))

\* on conflict do nothing: the row of the submission is kept as it is
UpsertMark_keep(table, sub, value) ==
    IF \E i \in 1..Len(table) : table[i].submission_id = sub.id
    THEN table
    ELSE Append(table, MarkRow(FreshMarkId(table), sub, value))

\* upsert(..., { onConflict: "submission_id" }): the row of the submission is
\* rewritten (it keeps its id and gets the new created_at, which makes it
\* the latest row), or a new row is added
UpsertMark(table, sub, value) ==
    LET hits == {i \in 1..Len(table) : table[i].submission_id = sub.id}
    IN  IF hits = {}
        THEN Append(table, MarkRow(FreshMarkId(table), sub, value))
        ELSE LET old == table[CHOOSE i \in hits : TRUE]
             IN  Append(SelectSeq(table, LAMBDA r : r.submission_id # sub.id),
                        MarkRow(old.id, sub, value))

\* saveLog describes the saveMark whose upsert has succeeded, until the step
\* after that saveMark has ended
KeepLog == saveLog' = IF savePc = "fetch" THEN saveLog ELSE None

\* the mark input's onChange
setMarkInput(v) ==
    /\ showPreviewModal
    /\ selectedSubmission # None
    /\ markInput' = v
    /\ KeepLog
    /\ UNCHANGED <<marksTable, submissions, marks, selectedSubmission, fileContent,
                   showPreviewModal, toast, savePc, saveReq, previewPc,
                   formVars, storeVars, obsVars, gradeVars, extVars>>

closePreviewModal ==
    /\ showPreviewModal
    /\ showPreviewModal' = FALSE
    /\ KeepLog
    /\ UNCHANGED <<marksTable, submissions, marks, selectedSubmission, fileContent,
                   markInput, toast, savePc, saveReq, previewPc,
                   formVars, storeVars, obsVars, gradeVars, extVars>>

\* the text previewFile puts in the mark input
MarkInputFor(list, sub) ==
    LET existingMark == FindMark(list, sub.id)
    IN  IF existingMark = None THEN <<>> ELSE NumberToString(existingMark[1].marks)

\* previewFile up to its await: the download is sent. The handler reads the
\* mark list of the render it was created in, so what it will put in the
\* mark input is settled here
previewFileBegin(i) ==
    /\ previewPc = None
    \* the open modal lies over the rows and their buttons
    /\ ~showPreviewModal
    /\ i \in 1..Len(submissions)
    /\ selectedSubmission' = Some(submissions[i])
    /\ previewPc' = Some([sub |-> submissions[i],
                           markText |-> MarkInputFor(marks, submissions[i])])
    /\ KeepLog
    /\ UNCHANGED <<marksTable, submissions, marks, fileContent, markInput,
                   showPreviewModal, toast, savePc, saveReq,
                   formVars, storeVars, obsVars, gradeVars, extVars>>

\* previewFile of another row called while a call is under way: the
\* administrator presses the buttons of two rows one after the other
previewFileOverlap(i) ==
    /\ Len(previewPc) = 1
    /\ ~showPreviewModal
    /\ i \in 1..Len(submissions)
    /\ submissions[i].id # previewPc[1].sub.id
    /\ selectedSubmission' = Some(submissions[i])
    /\ previewPc' = Append(previewPc,
                           [sub |-> submissions[i],
                            markText |-> MarkInputFor(marks, submissions[i])])
    /\ KeepLog
    /\ UNCHANGED <<marksTable, submissions, marks, fileContent, markInput,
                   showPreviewModal, toast, savePc, saveReq,
                   formVars, storeVars, obsVars, gradeVars, extVars>>

\* the calls under way without the k-th, which has ended
Ended(calls, k) == SubSeq(calls, 1, k - 1) \o SubSeq(calls, k + 1, Len(calls))

\* the download fails: the warning is shown and previewFile returns
previewDownloadError ==
    \E k \in 1..Len(previewPc) :
        /\ fileContent' = DownloadFailedText
        /\ showPreviewModal' = TRUE
        /\ previewPc' = Ended(previewPc, k)
        /\ KeepLog
        /\ UNCHANGED <<marksTable, submissions, marks, selectedSubmission, markInput,
                       toast, savePc, saveReq, formVars, storeVars, obsVars, gradeVars,
                       extVars>>

\* the download answers with neither data nor error: previewFile returns
previewNoData ==
    \E k \in 1..Len(previewPc) :
        /\ previewPc' = Ended(previewPc, k)
        /\ KeepLog
        /\ UNCHANGED <<marksTable, submissions, marks, selectedSubmission, fileContent,
                       markInput, showPreviewModal, toast, savePc, saveReq,
                       formVars, storeVars, obsVars, gradeVars, extVars>>

\* the download answers with the object: text is shown in the modal, anything
\* else opens in a new tab; then the mark input is set from the mark list
previewDownloadOk ==
    \E k \in 1..Len(previewPc) :
        /\ \E o \in storageObjects : o.path = previewPc[k].sub.file_path
        /\ LET sub == previewPc[k].sub
               obj == CHOOSE o \in storageObjects : o.path = sub.file_path
           IN  /\ IF ToLowerCase(sub.extension) \in TextExtensions
                  THEN /\ fileContent' = obj.file.content
                       /\ showPreviewModal' = TRUE
                  ELSE UNCHANGED <<fileContent, showPreviewModal>>
               /\ markInput' = previewPc[k].markText
        /\ previewPc' = Ended(previewPc, k)
        /\ KeepLog
        /\ UNCHANGED <<marksTable, submissions, marks, selectedSubmission, toast,
                       savePc, saveReq, formVars, storeVars, obsVars, gradeVars, extVars>>

\* reading the downloaded text throws: the catch block shows the warning, and
\* the mark input is set from the mark list
previewThrows ==
    \E k \in 1..Len(previewPc) :
        /\ fileContent' = UnexpectedText
        /\ showPreviewModal' = TRUE
        /\ markInput' = previewPc[k].markText
        /\ previewPc' = Ended(previewPc, k)
        /\ KeepLog
        /\ UNCHANGED <<marksTable, submissions, marks, selectedSubmission, toast,
                       savePc, saveReq, formVars, storeVars, obsVars, gradeVars, extVars>>

\* saveMark up to its first await: nothing to do, refused, or the upsert is sent
saveMarkBegin ==
    /\ showPreviewModal
    /\ savePc = "idle"
    /\ selectedSubmission # None
    /\ markInput # <<>>
    /\ LET markValue == parseInt(markInput)
       IN  IF MarkRejected(markValue)
           THEN /\ toast' = Some(Toast(EnterMarksMsg, "error"))
                /\ UNCHANGED <<savePc, saveReq>>
           ELSE /\ saveReq' = Some([sub |-> selectedSubmission[1],
                                    markValue |-> markValue.value])
                /\ savePc' = "upsert"
                /\ UNCHANGED toast
    /\ KeepLog
    /\ UNCHANGED <<marksTable, submissions, marks, selectedSubmission, fileContent,
                   markInput, showPreviewModal, previewPc,
                   formVars, storeVars, obsVars, gradeVars, extVars>>

\* the upsert fails: the catch block shows the error
saveUpsertError ==
    /\ savePc = "upsert"
    /\ toast' = Some(Toast(StoreErrorMsg, "error"))
    /\ savePc' = "idle"
    /\ saveReq' = None
    /\ KeepLog
    /\ UNCHANGED <<marksTable, submissions, marks, selectedSubmission, fileContent,
                   markInput, showPreviewModal, previewPc,
                   formVars, storeVars, obsVars, gradeVars, extVars>>

\* observation: how a successful upsert relates to the successful upsert
\* before it, whose row is the latest of the table
Relation(table, id, value) ==
    IF table = <<>> THEN "none"
    ELSE IF table[Len(table)].submission_id # id THEN "other"
    ELSE IF table[Len(table)].marks = value THEN "same"
    ELSE "changed"

\* the upsert succeeds: the table is written and fetchMarks is sent
saveUpsertOk ==
    /\ savePc = "upsert"
    /\ marksTable' = UpsertMark(marksTable, saveReq[1].sub, saveReq[1].markValue)
    /\ saveLog' = Some([sub |-> saveReq[1].sub.id,
                        value |-> saveReq[1].markValue,
                        prev |-> Relation(marksTable, saveReq[1].sub.id,
                                          saveReq[1].markValue),
                        fetched |-> "pending"])
    /\ savePc' = "fetch"
    /\ UNCHANGED <<submissions, marks, selectedSubmission, fileContent, markInput,
                   showPreviewModal, toast, saveReq, previewPc,
                   formVars, storeVars, obsVars, gradeVars, extVars>>

\* fetchMarks succeeds inside saveMark: the list is replaced, then the toast
saveFetchOk ==
    /\ savePc = "fetch"
    /\ marks' = FetchedMarks(marksTable)
    /\ toast' = Some(Toast(MarksSavedMsg, "success"))
    /\ saveLog' = [saveLog EXCEPT ![1].fetched = "yes"]
    /\ savePc' = "idle"
    /\ saveReq' = None
    /\ UNCHANGED <<marksTable, submissions, selectedSubmission, fileContent,
                   markInput, showPreviewModal, previewPc,
                   formVars, storeVars, obsVars, gradeVars, extVars>>

\* fetchMarks fails inside saveMark: it shows the error itself and returns,
\* the list is left as it was, and saveMark goes on to its own toast
saveFetchError ==
    /\ savePc = "fetch"
    /\ toast' = Some(Toast(MarksSavedMsg, "success"))
    /\ saveLog' = [saveLog EXCEPT ![1].fetched = "no"]
    /\ savePc' = "idle"
    /\ saveReq' = None
    /\ UNCHANGED <<marksTable, submissions, marks, selectedSubmission, fileContent,
                   markInput, showPreviewModal, previewPc,
                   formVars, storeVars, obsVars, gradeVars, extVars>>

(***************************************************************************)
(* Admin: letter grade of a mark                                           *)
(***************************************************************************)
NotRendered == "<none>"

\* the grade of the report with 90 itself left to "A"
ReportGrade_strict(m) ==
    IF m > 90 THEN "A+"
    ELSE IF m >= 80 THEN "A"
    ELSE IF m >= 70 THEN "B"
    ELSE IF m >= 60 THEN "C"
    ELSE "F"

\* generatePDF: the grade written beside a mark
ReportGrade(m) ==
    IF m >= 90 THEN "A+"
    ELSE IF m >= 80 THEN "A"
    ELSE IF m >= 70 THEN "B"
    ELSE IF m >= 60 THEN "C"
    ELSE "F"

\* the results table: the grade shown beside a mark
TableGrade(m) ==
    IF m >= 90 THEN "A+"
    ELSE IF m >= 80 THEN "A"
    ELSE IF m >= 70 THEN "B"
    ELSE IF m >= 60 THEN "C"
    ELSE "F"

\* a row of the results table is rendered
renderResultsRow ==
    /\ tableGrade' = TableGrade(rowMark)
    /\ UNCHANGED <<rowMark, reportGrade, formVars, storeVars, adminVars, obsVars,
                   extVars>>

\* a row of the report is written
writeReportRow ==
    /\ reportGrade' = ReportGrade(rowMark)
    /\ UNCHANGED <<rowMark, tableGrade, formVars, storeVars, adminVars, obsVars,
                   extVars>>

(***************************************************************************)
(* Admin: filters and report                                               *)
(***************************************************************************)
NoResultsMsg == "No results to download for selected class/section."
ReportSavedMsg == "Student results have been downloaded as PDF."

\* marks.filter with only the class test
FilteredMarks_classOnly(list, cls, section) ==
    SelectSeq(list, LAMBDA mark : cls = <<>> \/ mark.class = cls)

\* filteredMarks: an empty filter is falsy and matches every mark
FilteredMarks(list, cls, section) ==
    SelectSeq(list, LAMBDA mark :
        LET matchesClass == cls = <<>> \/ mark.class = cls
            matchesSection == section = <<>> \/ mark.section = section
        IN  matchesClass /\ matchesSection)

\* `Class ${mark.class} - Section ${mark.section}`
GroupKey(mark) ==
    <<"C", "l", "a", "s", "s", " ">> \o mark.class \o
    <<" ", "-", " ", "S", "e", "c", "t", "i", "o", "n", " ">> \o mark.section

\* one step of the reduce: the mark joins the group of its key, a key not
\* seen before opens a group after the groups there are
AddToGroups(acc, mark) ==
    IF \E i \in 1..Len(acc) : acc[i].group = GroupKey(mark)
    THEN [i \in 1..Len(acc) |->
             IF acc[i].group = GroupKey(mark)
             THEN [acc[i] EXCEPT !.groupMarks = Append(@, mark)]
             ELSE acc[i]]
    ELSE Append(acc, [group |-> GroupKey(mark), groupMarks |-> <<mark>>])

RECURSIVE ReduceGroups(_, _)
\* marks.reduce from the left; Len(acc) >= 0 has the accumulator evaluated at
\* every step and not only at the end
ReduceGroups(acc, list) ==
    IF list # <<>> /\ Len(acc) >= 0
    THEN ReduceGroups(AddToGroups(acc, Head(list)), Tail(list))
    ELSE acc

\* the groups with a new key put before the groups there are
RECURSIVE GroupedResults_newestFirst(_)
GroupedResults_newestFirst(list) ==
    IF list = <<>> THEN <<>>
    ELSE LET rest == GroupedResults_newestFirst(SubSeq(list, 1, Len(list) - 1))
             mark == list[Len(list)]
         IN  IF \E i \in 1..Len(rest) : rest[i].group = GroupKey(mark)
             THEN AddToGroups(rest, mark)
             ELSE <<[group |-> GroupKey(mark), groupMarks |-> <<mark>>]>> \o rest

\* Object.entries(groupedResults): the keys are no array indices, so they
\* come in the order in which they were added
GroupedResults(list) == ReduceGroups(<<>>, list)

\* what generatePDF writes: per group the heading and one line per mark
ReportLine(mark) ==
    [student_name |-> mark.student_name, marks |-> mark.marks,
     submission_id |-> mark.submission_id]

Document(list) ==
    LET groups == GroupedResults(list)
    IN  [i \in 1..Len(groups) |->
            [heading |-> groups[i].group,
             lines |-> [k \in 1..Len(groups[i].groupMarks) |->
                           ReportLine(groups[i].groupMarks[k])]]]

\* the layout of generatePDF, in mm of an A4 page in portrait
PageHeight == 297
PageTop == 20
PageLimit == 280
TitleStep == 8
TimestampStep == 12
HeadingReserve == 5
HeadingStep == 8
HeaderHeight == 6
RowStep == 9
GroupGap == 8

\* an item drawn: its kind, the cursor the step found, the cursor it is drawn
\* at and its page
Item(kind, before, y, page) == [kind |-> kind, before |-> before, y |-> y, page |-> page]

\* a row drawn at y on a page, found with the cursor at cur.y; then y += 9
DrawRow(cur, y, page) ==
    [y |-> y + RowStep, page |-> page,
     items |-> Append(cur.items, Item("row", cur.y, y, page))]

\* the rows of a group drawn with no page test
DrawRows_noBreak(cur, groupMarks) ==
    [y |-> cur.y + RowStep * Len(groupMarks), page |-> cur.page,
     items |-> cur.items \o
         [k \in 1..Len(groupMarks) |->
             Item("row", cur.y + RowStep * (k - 1), cur.y + RowStep * (k - 1),
                  cur.page)]]

RECURSIVE DrawRows(_, _)
\* groupMarks.forEach: the page test, the row, y += 9
DrawRows(cur, groupMarks) ==
    IF groupMarks = <<>> THEN cur
    ELSE IF cur.y > PageLimit
         THEN DrawRows(DrawRow(cur, PageTop, cur.page + 1), Tail(groupMarks))
         ELSE DrawRows(DrawRow(cur, cur.y, cur.page), Tail(groupMarks))

\* one group: y += 5, the heading, y += 8, the table header,
\* y += headerHeight + 1, the rows, y += 8
DrawGroup(cur, groupMarks) ==
    LET headingY == cur.y + HeadingReserve
        headerY == headingY + HeadingStep
        rows == DrawRows([y |-> headerY + HeaderHeight + 1, page |-> cur.page,
                          items |-> cur.items \o
                              << Item("heading", cur.y, headingY, cur.page),
                                 Item("header", headingY + HeadingStep, headerY, cur.page) >>],
                         groupMarks)
    IN  [rows EXCEPT !.y = @ + GroupGap]

RECURSIVE DrawGroups(_, _)
DrawGroups(cur, groups) ==
    IF groups = <<>> THEN cur
    ELSE DrawGroups(DrawGroup(cur, Head(groups).groupMarks), Tail(groups))

\* everything generatePDF draws for a list: title, time stamp, groups
Drawn(list) ==
    DrawGroups([y |-> PageTop + TitleStep + TimestampStep, page |-> 1,
                items |-> << Item("title", PageTop, PageTop, 1),
                             Item("timestamp", PageTop + TitleStep,
                                  PageTop + TitleStep, 1) >>],
               GroupedResults(list)).items

\* generatePDF building the document also of an empty list
generatePDF_always ==
    /\ report' = Some(Document(FilteredMarks(marks, classFilter, sectionFilter)))
    /\ drawn' = Drawn(FilteredMarks(marks, classFilter, sectionFilter))
    /\ toast' = Some(Toast(ReportSavedMsg, "success"))
    /\ lastEvent' = Event("admin", "generate", None)
    /\ UNCHANGED <<classFilter, sectionFilter, tableRows, attempt, formVars, storeVars,
                   marksTable, submissions, marks, selectedSubmission, fileContent,
                   markInput, showPreviewModal, savePc, saveReq, previewPc, saveLog,
                   gradeVars, feedVars, registryVars, sessionVars>>

generatePDF ==
    /\ LET filteredMarks == FilteredMarks(marks, classFilter, sectionFilter)
       IN  IF Len(filteredMarks) = 0
           THEN /\ toast' = Some(Toast(NoResultsMsg, "error"))
                /\ UNCHANGED <<report, drawn>>
           ELSE /\ report' = Some(Document(filteredMarks))
                /\ drawn' = Drawn(filteredMarks)
                /\ toast' = Some(Toast(ReportSavedMsg, "success"))
    /\ lastEvent' = Event("admin", "generate", None)
    /\ UNCHANGED <<classFilter, sectionFilter, tableRows, attempt, formVars, storeVars,
                   marksTable, submissions, marks, selectedSubmission, fileContent,
                   markInput, showPreviewModal, savePc, saveReq, previewPc, saveLog,
                   gradeVars, feedVars, registryVars, sessionVars>>

\* the values the filter selects offer: "" and the classes / sections of the
\* loaded submissions
ClassOptions == {<<>>} \cup {submissions[i].class : i \in 1..Len(submissions)}
SectionOptions == {<<>>} \cup {submissions[i].section : i \in 1..Len(submissions)}

\* a state change of the filters, and the results table rendered again
SetFilters(cls, section, op) ==
    /\ classFilter' = cls
    /\ sectionFilter' = section
    /\ tableRows' = FilteredMarks(marks, cls, section)
    /\ lastEvent' = Event("admin", op, None)
    /\ UNCHANGED <<report, drawn, attempt, formVars, storeVars, adminVars, gradeVars,
                   feedVars, registryVars, sessionVars>>

setClassFilter(v) == v \in ClassOptions /\ SetFilters(v, sectionFilter, "filter")
setSectionFilter(v) == v \in SectionOptions /\ SetFilters(classFilter, v, "filter")
clearFilters ==
    /\ classFilter # <<>> \/ sectionFilter # <<>>
    /\ SetFilters(<<>>, <<>>, "clear")

(***************************************************************************)
(* Admin: initial load and change feed of the submissions                  *)
(***************************************************************************)
NewSubmissionMsg == "New submission received"
NoFeedLog == [fetched |-> {}, delivered |-> {}]

Ids(list) == {list[i].id : i \in 1..Len(list)}

\* the effects that run when the user is set: fetchSubmissions, fetchMarks and
\* fetchFileExtensions are sent and the channel starts to subscribe
UserEffects ==
    /\ fetchPc' = "sent"
    /\ marksPc' = "sent"
    /\ extPc' = "sent"
    /\ channel' = "joining"

\* (getSession answers with the stored session and sets the user)
adminSignedIn ==
    /\ user = None
    /\ authPc = "idle"
    /\ fetchPc = "idle"
    /\ channel = "closed"
    /\ user' = Some("admin")
    /\ UserEffects
    /\ UNCHANGED <<authPc, feedQueue, fetchSnap, feedLog, formVars, storeVars,
                   adminVars, obsVars, gradeVars, reportVars, registryVars>>

\* the subscription is confirmed: INSERTs from now on are published to it
channelJoined ==
    /\ channel = "joining"
    /\ channel' = "joined"
    /\ UNCHANGED <<feedQueue, fetchPc, fetchSnap, feedLog, formVars, storeVars,
                   adminVars, obsVars, gradeVars, reportVars, registryVars, sessionVars>>

\* the store runs the query of fetchSubmissions, latest upload first
fetchSubmissionsQuery ==
    /\ fetchPc = "sent"
    /\ fetchSnap' = Reverse(submissionsTable)
    /\ fetchPc' = "answered"
    /\ UNCHANGED <<channel, feedQueue, feedLog, formVars, storeVars, adminVars,
                   obsVars, gradeVars, reportVars, registryVars, sessionVars>>

\* the answer of fetchSubmissions arrives: setSubmissions(data || [])
fetchSubmissionsOk ==
    /\ fetchPc = "answered"
    /\ submissions' = fetchSnap
    /\ feedLog' = [feedLog EXCEPT !.fetched = Ids(fetchSnap)]
    /\ fetchPc' = "done"
    /\ UNCHANGED <<channel, feedQueue, fetchSnap, formVars, storeVars, marksTable,
                   marks, selectedSubmission, fileContent, markInput,
                   showPreviewModal, toast, savePc, saveReq, previewPc, saveLog,
                   obsVars, gradeVars, reportVars, registryVars, sessionVars>>

\* fetchSubmissions fails: the error is shown, the list is left as it is
fetchSubmissionsError ==
    /\ fetchPc \in {"sent", "answered"}
    /\ toast' = Some(Toast(StoreErrorMsg, "error"))
    /\ fetchPc' = "done"
    /\ UNCHANGED <<channel, feedQueue, fetchSnap, feedLog, formVars, storeVars,
                   marksTable, submissions, marks, selectedSubmission, fileContent,
                   markInput, showPreviewModal, savePc, saveReq, previewPc, saveLog,
                   obsVars, gradeVars, reportVars, registryVars, sessionVars>>

\* the handler of an INSERT event: setSubmissions((prev) => [new, ...prev])
feedDeliver ==
    /\ feedQueue # <<>>
    /\ LET newSubmission == Head(feedQueue)
       IN  /\ submissions' = <<newSubmission>> \o submissions
           /\ feedLog' = [feedLog EXCEPT !.delivered = @ \cup {newSubmission.id}]
    /\ toast' = Some(Toast(NewSubmissionMsg, "success"))
    /\ feedQueue' = Tail(feedQueue)
    /\ UNCHANGED <<channel, fetchPc, fetchSnap, formVars, storeVars, marksTable,
                   marks, selectedSubmission, fileContent, markInput,
                   showPreviewModal, savePc, saveReq, previewPc, saveLog,
                   obsVars, gradeVars, reportVars, registryVars, sessionVars>>

(***************************************************************************)
(* Admin: session and toast                                                *)
(***************************************************************************)
SignedInMsg == "Welcome back! Successfully signed in to admin panel."
SignedOutMsg == "Successfully signed out of admin panel."

\* the frame of a step that shows a toast and moves the session
ToastFrame ==
    UNCHANGED <<marksTable, submissions, marks, selectedSubmission, fileContent,
                markInput, showPreviewModal, savePc, saveReq, previewPc, saveLog,
                formVars, storeVars, obsVars, gradeVars, reportVars, registryVars>>

\* signIn up to its await; the form is shown while no user is set, and the
\* administrator signs in again when the fetchSubmissions of the session
\* before has ended
signInBegin ==
    /\ user = None
    /\ authPc = "idle"
    /\ fetchPc \in {"idle", "done"}
    /\ authPc' = "signIn"
    /\ UNCHANGED <<user, marksPc, extPc, formVars, storeVars, adminVars, obsVars,
                   gradeVars, reportVars, feedVars, registryVars>>

\* signInWithPassword succeeds: setUser, the toast, and the effects of the user
signInOk ==
    /\ authPc = "signIn"
    /\ user' = Some("admin")
    /\ toast' = Some(Toast(SignedInMsg, "success"))
    /\ authPc' = "idle"
    /\ UserEffects
    /\ UNCHANGED <<feedQueue, fetchSnap, feedLog>>
    /\ ToastFrame

\* signInWithPassword answers with an error: the catch block shows it
signInError ==
    /\ authPc = "signIn"
    /\ toast' = Some(Toast(StoreErrorMsg, "error"))
    /\ authPc' = "idle"
    /\ UNCHANGED <<user, marksPc, extPc, feedVars>>
    /\ ToastFrame

\* signOut up to its await
signOutBegin ==
    /\ user # None
    /\ authPc = "idle"
    /\ authPc' = "signOut"
    /\ UNCHANGED <<user, marksPc, extPc, formVars, storeVars, adminVars, obsVars,
                   gradeVars, reportVars, feedVars, registryVars>>

\* auth.signOut has answered: setUser(null) and the toast; the cleanup of the
\* subscription effect calls removeChannel and does not await it. Whether the
\* events on their way are still handed to the handler is the client
\* library's matter: both outcomes are taken
signOutOk ==
    /\ authPc = "signOut"
    /\ user' = None
    /\ toast' = Some(Toast(SignedOutMsg, "success"))
    /\ authPc' = "idle"
    /\ channel' = "closed"
    /\ feedQueue' \in {<<>>, feedQueue}
    /\ UNCHANGED <<marksPc, extPc, fetchPc, fetchSnap, feedLog>>
    /\ ToastFrame

\* auth.signOut rejects: the catch block shows the error, the user stays
signOutThrows ==
    /\ authPc = "signOut"
    /\ toast' = Some(Toast(StoreErrorMsg, "error"))
    /\ authPc' = "idle"
    /\ UNCHANGED <<user, marksPc, extPc, feedVars>>
    /\ ToastFrame

\* the fetchMarks of the effect answers: setMarks(data || [])
fetchMarksOk ==
    /\ marksPc = "sent"
    /\ marks' = FetchedMarks(marksTable)
    /\ marksPc' = "done"
    /\ UNCHANGED <<user, authPc, extPc, marksTable, submissions, selectedSubmission,
                   fileContent, markInput, showPreviewModal, toast, savePc, saveReq,
                   previewPc, saveLog, formVars, storeVars, obsVars, gradeVars,
                   reportVars, feedVars, registryVars>>

\* the fetchMarks of the effect fails: the error is shown
fetchMarksError ==
    /\ marksPc = "sent"
    /\ toast' = Some(Toast(StoreErrorMsg, "error"))
    /\ marksPc' = "done"
    /\ UNCHANGED <<user, authPc, extPc, feedVars>>
    /\ ToastFrame

\* the timer of the toast effect fires, 3 seconds after the toast was set
\* last: setToast(null)
toastTimeout_never ==
    /\ toast # None
    /\ UNCHANGED vars

toastTimeout ==
    /\ toast # None
    /\ toast' = None
    /\ UNCHANGED <<marksTable, submissions, marks, selectedSubmission, fileContent,
                   markInput, showPreviewModal, savePc, saveReq, previewPc, saveLog,
                   formVars, storeVars, obsVars, gradeVars, extVars>>

(***************************************************************************)
(* File extension registry                                                 *)
(***************************************************************************)
ExtensionsUpdatedMsg == "Extension updated successfully."
ManagerSavedText == "File extensions updated successfully!"
ManagerSaveFailedText == "Failed to save changes"
ManagerLoadFailedText == "Failed to load file extensions"
Message(type, text) == [type |-> type, text |-> text]

\* two of the rows the migration inserts, 'py' enabled and 'pdf' not, with
\* the ids the store gave them and the time of the migration as time 0
SeedExtensions ==
    << [id |-> "e1", extension |-> "py", is_enabled |-> TRUE, updated_at |-> 0],
       [id |-> "e2", extension |-> "pdf", is_enabled |-> FALSE, updated_at |-> 0] >>

ExtIds == {SeedExtensions[i].id : i \in 1..Len(SeedExtensions)}

\* the time of the store goes up to MaxClock
MaxClock == 1

\* an update that flips the flag the row has
UpdateEnabled_flip(table, id, value, now) ==
    [i \in 1..Len(table) |->
        IF table[i].id = id
        THEN [table[i] EXCEPT !.is_enabled = ~@, !.updated_at = now]
        ELSE table[i]]

\* update({ is_enabled: value }).eq("id", id), with the trigger that sets
\* updated_at = now() on every row updated
UpdateEnabled(table, id, value, now) ==
    [i \in 1..Len(table) |->
        IF table[i].id = id
        THEN [table[i] EXCEPT !.is_enabled = value, !.updated_at = now]
        ELSE table[i]]

\* select('*').order('extension'): the rows as the components keep them
\* (the time stamps play no part in them)
\* the extensions of the table in the order of their text
ExtensionOrder == <<"pdf", "py">>
Rank(extension) == CHOOSE n \in 1..Len(ExtensionOrder) : ExtensionOrder[n] = extension

RECURSIVE SortByExtension(_)
SortByExtension(rows) ==
    IF rows = {} THEN <<>>
    ELSE LET first == CHOOSE r \in rows :
                          \A o \in rows : Rank(r.extension) <= Rank(o.extension)
         IN  <<first>> \o SortByExtension(rows \ {first})

LoadedExtensions(table) ==
    SortByExtension({[id |-> table[i].id, extension |-> table[i].extension,
                      is_enabled |-> table[i].is_enabled] : i \in 1..Len(table)})

\* prev.map((ext) => ext.id === id ? { ...ext, is_enabled: value } : ext)
MapEnabled(list, id, value) ==
    [i \in 1..Len(list) |->
        IF list[i].id = id THEN [list[i] EXCEPT !.is_enabled = value] ELSE list[i]]

Flags(table) == [i \in 1..Len(table) |-> <<table[i].id, table[i].is_enabled>>]

\* observation of an update of the table
Logged(table, id, value) ==
    Some([id |-> id, value |-> value,
          was |-> {table[i].is_enabled : i \in {j \in 1..Len(table) : table[j].id = id}},
          flagsBefore |-> Flags(table)])

\* time passes in the store
tick ==
    /\ clock < MaxClock
    /\ clock' = clock + 1
    /\ UNCHANGED <<extTable, fileExtensions, togglePc, extensions, loading, saving,
                   message, savingPc, regLog, formVars, storeVars, adminVars, obsVars,
                   gradeVars, reportVars, feedVars, sessionVars>>

\* Admin page: fetchFileExtensions, run when the user is set
fetchFileExtensionsOk ==
    /\ extPc = "sent"
    /\ fileExtensions' = LoadedExtensions(extTable)
    /\ extPc' = "done"
    /\ UNCHANGED <<extTable, clock, togglePc, extensions, loading, saving, message,
                   savingPc, regLog, formVars, storeVars, adminVars, obsVars,
                   gradeVars, reportVars, feedVars, user, authPc, marksPc>>

\* fetchFileExtensions fails: the error is shown, the list is left as it is
fetchFileExtensionsError ==
    /\ extPc = "sent"
    /\ toast' = Some(Toast(StoreErrorMsg, "error"))
    /\ extPc' = "done"
    /\ UNCHANGED <<registryVars, formVars, storeVars, marksTable, submissions, marks,
                   selectedSubmission, fileContent, markInput, showPreviewModal,
                   savePc, saveReq, previewPc, saveLog, obsVars, gradeVars,
                   reportVars, feedVars, user, authPc, marksPc>>

\* Admin page: toggleExtension(ext.id, ext.is_enabled) up to its await; the
\* administrator acts again when the call under way has ended
toggleExtensionBegin(i) ==
    /\ i \in 1..Len(fileExtensions)
    /\ togglePc = None
    /\ togglePc' = Some([id |-> fileExtensions[i].id,
                         current |-> fileExtensions[i].is_enabled,
                         stage |-> "sent"])
    /\ UNCHANGED <<extTable, clock, fileExtensions, extensions, loading, saving,
                   message, savingPc, regLog, formVars, storeVars, adminVars, obsVars,
                   gradeVars, reportVars, feedVars, sessionVars>>

\* the store runs the update of a toggleExtension
toggleExtensionStore ==
    /\ togglePc # None
    /\ togglePc[1].stage = "sent"
    /\ extTable' = UpdateEnabled(extTable, togglePc[1].id, ~togglePc[1].current, clock)
    /\ regLog' = Logged(extTable, togglePc[1].id, ~togglePc[1].current)
    /\ togglePc' = [togglePc EXCEPT ![1].stage = "stored"]
    /\ UNCHANGED <<clock, fileExtensions, extensions, loading, saving, message,
                   savingPc, formVars, storeVars, adminVars, obsVars,
                   gradeVars, reportVars, feedVars, sessionVars>>

\* the answer of the update arrives: the list is mapped and the toast shown
toggleExtensionOk ==
    /\ togglePc # None
    /\ togglePc[1].stage = "stored"
    /\ fileExtensions' = MapEnabled(fileExtensions, togglePc[1].id, ~togglePc[1].current)
    /\ toast' = Some(Toast(ExtensionsUpdatedMsg, "success"))
    /\ togglePc' = None
    /\ UNCHANGED <<extTable, clock, extensions, loading, saving, message, savingPc,
                   regLog, formVars, storeVars, marksTable, submissions, marks,
                   selectedSubmission, fileContent, markInput, showPreviewModal,
                   savePc, saveReq, previewPc, saveLog, obsVars, gradeVars,
                   reportVars, feedVars, sessionVars>>

\* the update of a toggleExtension fails: the error is shown
toggleExtensionError ==
    /\ togglePc # None
    /\ togglePc[1].stage = "sent"
    /\ toast' = Some(Toast(StoreErrorMsg, "error"))
    /\ togglePc' = None
    /\ UNCHANGED <<extTable, clock, fileExtensions, extensions, loading, saving,
                   message, savingPc, regLog, formVars, storeVars, marksTable,
                   submissions, marks, selectedSubmission, fileContent, markInput,
                   showPreviewModal, savePc, saveReq, previewPc, saveLog, obsVars,
                   gradeVars, reportVars, feedVars, sessionVars>>

\* FileExtensionManager: fetchExtensions, run when it mounts
fetchExtensionsOk ==
    /\ loading
    /\ extensions' = LoadedExtensions(extTable)
    /\ loading' = FALSE
    /\ UNCHANGED <<extTable, clock, fileExtensions, togglePc, saving, message,
                   savingPc, regLog, formVars, storeVars, adminVars, obsVars,
                   gradeVars, reportVars, feedVars, sessionVars>>

fetchExtensionsError ==
    /\ loading
    /\ message' = Some(Message("error", ManagerLoadFailedText))
    /\ loading' = FALSE
    /\ UNCHANGED <<extTable, clock, fileExtensions, togglePc, extensions, saving,
                   savingPc, regLog, formVars, storeVars, adminVars, obsVars,
                   gradeVars, reportVars, feedVars, sessionVars>>

\* FileExtensionManager: the checkbox of a row, toggleExtension(id, checked)
managerToggleExtension(i) ==
    /\ ~loading
    /\ i \in 1..Len(extensions)
    /\ extensions' = MapEnabled(extensions, extensions[i].id, ~extensions[i].is_enabled)
    /\ UNCHANGED <<extTable, clock, fileExtensions, togglePc, loading, saving,
                   message, savingPc, regLog, formVars, storeVars, adminVars, obsVars,
                   gradeVars, reportVars, feedVars, sessionVars>>

\* saveChanges up to its first await: the updates are taken from the rows
\* (observation: the flags the table holds when it begins)
saveChangesBegin ==
    /\ ~loading
    /\ ~saving
    /\ savingPc = None
    /\ saving' = TRUE
    /\ message' = None
    /\ savingPc' = Some([updates |-> [i \in 1..Len(extensions) |->
                                        [id |-> extensions[i].id,
                                         is_enabled |-> extensions[i].is_enabled]],
                         next |-> 1,
                         before |-> Flags(extTable)])
    /\ UNCHANGED <<extTable, clock, fileExtensions, togglePc, extensions, loading,
                   regLog, formVars, storeVars, adminVars, obsVars,
                   gradeVars, reportVars, feedVars, sessionVars>>

\* the update of the next row succeeds
saveChangesUpdateOk ==
    /\ savingPc # None
    /\ savingPc[1].next <= Len(savingPc[1].updates)
    /\ LET update == savingPc[1].updates[savingPc[1].next]
       IN  /\ extTable' = UpdateEnabled(extTable, update.id, update.is_enabled, clock)
           /\ regLog' = Logged(extTable, update.id, update.is_enabled)
    /\ savingPc' = [savingPc EXCEPT ![1].next = @ + 1]
    /\ UNCHANGED <<clock, fileExtensions, togglePc, extensions, loading, saving,
                   message, formVars, storeVars, adminVars, obsVars,
                   gradeVars, reportVars, feedVars, sessionVars>>

\* the update of the next row fails: the loop is left by the throw
saveChangesUpdateError ==
    /\ savingPc # None
    /\ savingPc[1].next <= Len(savingPc[1].updates)
    /\ message' = Some(Message("error", ManagerSaveFailedText))
    /\ saving' = FALSE
    /\ savingPc' = None
    /\ UNCHANGED <<extTable, clock, fileExtensions, togglePc, extensions, loading,
                   regLog, formVars, storeVars, adminVars, obsVars,
                   gradeVars, reportVars, feedVars, sessionVars>>

\* every update is done: the success message
saveChangesDone ==
    /\ savingPc # None
    /\ savingPc[1].next > Len(savingPc[1].updates)
    /\ message' = Some(Message("success", ManagerSavedText))
    /\ saving' = FALSE
    /\ savingPc' = None
    /\ UNCHANGED <<extTable, clock, fileExtensions, togglePc, extensions, loading,
                   regLog, formVars, storeVars, adminVars, obsVars,
                   gradeVars, reportVars, feedVars, sessionVars>>

(***************************************************************************)
(* Specifications                                                          *)
(***************************************************************************)
InitStore ==
    /\ submissionsTable = <<>>
    /\ storageObjects = {}

\* the Admin component as mounted, nobody signed in
InitAdmin ==
    /\ marksTable = <<>>
    /\ submissions = <<>>
    /\ marks = <<>>
    /\ selectedSubmission = None
    /\ fileContent = ""
    /\ markInput = <<>>
    /\ showPreviewModal = FALSE
    /\ toast = None
    /\ savePc = "idle"
    /\ saveReq = None
    /\ previewPc = None
    /\ saveLog = None

\* no filter set, the results table not rendered, no report made
InitReportIdle ==
    /\ classFilter = <<>>
    /\ sectionFilter = <<>>
    /\ tableRows = <<>>
    /\ report = None
    /\ drawn = <<>>

\* nobody signed in: no channel, no fetch sent
InitFeedIdle ==
    /\ channel = "closed"
    /\ feedQueue = <<>>
    /\ fetchPc = "idle"
    /\ fetchSnap = <<>>
    /\ feedLog = NoFeedLog

\* the table as the migration leaves it; no component has loaded it
InitRegistryIdle ==
    /\ extTable = SeedExtensions
    /\ clock = 0
    /\ fileExtensions = <<>>
    /\ togglePc = None
    /\ extensions = <<>>
    /\ loading = TRUE
    /\ saving = FALSE
    /\ message = None
    /\ savingPc = None
    /\ regLog = None

\* no user: the sign-in form is shown
InitSignedOut ==
    /\ user = None
    /\ authPc = "idle"
    /\ marksPc = "idle"
    /\ extPc = "idle"

\* the administrator is signed in and the loads of the effect have ended
InitSignedIn ==
    /\ user = Some("admin")
    /\ authPc = "idle"
    /\ marksPc = "done"
    /\ extPc = "done"

InitIdle ==
    /\ InitReportIdle
    /\ InitFeedIdle
    /\ InitRegistryIdle
    /\ isSubmitting = [s \in Submitters |-> FALSE]
    /\ successMessage = [s \in Submitters |-> NoMessage]
    /\ errorMessage = [s \in Submitters |-> NoMessage]
    /\ pc = [s \in Submitters |-> "idle"]
    /\ req = [s \in Submitters |-> NoRequest]
    /\ lastEvent = Event("s1", "none", None)
    /\ attempt = [s \in Submitters |-> NoAttempt]
    /\ rowMark = 0
    /\ tableGrade = NotRendered
    /\ reportGrade = NotRendered

\* one freshly mounted form, every input of the form explored
InitIntake ==
    /\ InitSignedOut
    /\ formData = [s \in Submitters |-> EmptyForm]
    /\ uploadedFile = [s \in Submitters |-> None]
    /\ errors = [s \in Submitters |-> NoErrors]
    /\ InitIdle
    /\ InitStore
    /\ InitAdmin

NextIntake ==
    \E s \in IntakeSubmitters :
        \/ \E f \in IntakeFiles : handleFileSelect(s, f)
        \/ removeFile(s)
        \/ \E v \in IntakeNames : handleInputChange(s, "name", v)
        \/ \E v \in IntakeClasses : handleInputChange(s, "class", v)
        \/ \E v \in IntakeSections : handleInputChange(s, "section", v)
        \/ handleSubmitStep(s)

SpecIntake == InitIntake /\ [][NextIntake]_vars

\* a form that has been filled in and holds a selected file
FilledForms ==
    [Submitters -> [name : SubmitNames, class : {Class10}, section : {SectionA}]]

\* several submitters with filled forms press submit concurrently
InitSubmit ==
    /\ InitSignedOut
    /\ formData \in FilledForms
    /\ uploadedFile \in [Submitters ->
           {Some([file |-> f, name |-> f.name]) : f \in SubmitFiles}]
    /\ errors = [s \in Submitters |-> [NoErrors EXCEPT !.file = ""]]
    /\ InitIdle
    /\ InitStore
    /\ InitAdmin

NextSubmit == \E s \in Submitters : handleSubmitStep(s)

SpecSubmit == InitSubmit /\ [][NextSubmit]_vars

\* two submissions have been accepted; the administrator is signed in and
\* the initial fetches have answered
GradedRequests ==
    << Request([name |-> NameAsha, class |-> Class10, section |-> SectionA],
               [file |-> File(HwPy, 1024, "c1"), name |-> HwPy]),
       Request([name |-> NameRavi, class |-> Class10, section |-> SectionA],
               [file |-> File(HwPy, 2048, "c2"), name |-> HwPy]) >>

InitMarks ==
    /\ InitSignedIn
    /\ formData = [s \in Submitters |-> EmptyForm]
    /\ uploadedFile = [s \in Submitters |-> None]
    /\ errors = [s \in Submitters |-> NoErrors]
    /\ InitIdle
    /\ submissionsTable =
           [i \in 1..Len(GradedRequests) |-> SubmissionRow(i, GradedRequests[i])]
    /\ storageObjects =
           {[path |-> GradedRequests[i].filePath, file |-> GradedRequests[i].file] :
               i \in 1..Len(GradedRequests)}
    /\ marksTable = <<>>
    /\ submissions = Reverse(submissionsTable)
    /\ marks = <<>>
    /\ selectedSubmission = None
    /\ fileContent = ""
    /\ markInput = <<>>
    /\ showPreviewModal = FALSE
    /\ toast = None
    /\ savePc = "idle"
    /\ saveReq = None
    /\ previewPc = None
    /\ saveLog = None

NextMarks ==
    \/ \E i \in 1..Len(submissions) : previewFileBegin(i)
    \/ previewDownloadError
    \/ previewNoData
    \/ previewDownloadOk
    \/ previewThrows
    \/ closePreviewModal
    \/ \E v \in MarkInputs : setMarkInput(v)
    \/ saveMarkBegin
    \/ saveUpsertError
    \/ saveUpsertOk
    \/ saveFetchOk
    \/ saveFetchError

SpecMarks == InitMarks /\ [][NextMarks]_vars

\* a stored mark, any of 0..100, is rendered in the table and in the report
InitGrade ==
    /\ InitSignedIn
    /\ formData = [s \in Submitters |-> EmptyForm]
    /\ uploadedFile = [s \in Submitters |-> None]
    /\ errors = [s \in Submitters |-> NoErrors]
    /\ isSubmitting = [s \in Submitters |-> FALSE]
    /\ successMessage = [s \in Submitters |-> NoMessage]
    /\ errorMessage = [s \in Submitters |-> NoMessage]
    /\ pc = [s \in Submitters |-> "idle"]
    /\ req = [s \in Submitters |-> NoRequest]
    /\ lastEvent = Event("s1", "none", None)
    /\ attempt = [s \in Submitters |-> NoAttempt]
    /\ InitStore
    /\ InitAdmin
    /\ rowMark \in 0..MaxMark
    /\ tableGrade = NotRendered
    /\ reportGrade = NotRendered
    /\ InitReportIdle
    /\ InitFeedIdle
    /\ InitRegistryIdle

NextGrade == renderResultsRow \/ writeReportRow

SpecGrade == InitGrade /\ [][NextGrade]_vars

\* submitters whose names and file names hold the separator of the path
PathForms ==
    [Submitters -> [name : {NameAsha, NameAshaClass}, class : {Class10},
                    section : {SectionA}]]

PathFiles == {File(HwPy, 1024, "c1"), File(ClassHwPy, 2048, "c2")}

InitPath ==
    /\ InitSignedOut
    /\ formData \in PathForms
    /\ uploadedFile \in [Submitters ->
           {Some([file |-> f, name |-> f.name]) : f \in PathFiles}]
    /\ errors = [s \in Submitters |-> [NoErrors EXCEPT !.file = ""]]
    /\ InitIdle
    /\ InitStore
    /\ InitAdmin

NextPath == \E s \in Submitters : handleSubmitStep(s)

SpecPath == InitPath /\ [][NextPath]_vars

\* the submissions and marks the administrator has loaded for the report:
\* two students of one class and section, one of another section, one of
\* another class
ReportStudents ==
    << [name |-> NameAsha, cls |-> Class10, section |-> SectionB],
       [name |-> NameRavi, cls |-> Class10, section |-> SectionA],
       [name |-> NameMira, cls |-> Class10, section |-> SectionB],
       [name |-> NameKiran, cls |-> Class9, section |-> SectionA] >>

ReportSubmissions ==
    [i \in 1..Len(ReportStudents) |->
        SubmissionRow(i, [name |-> ReportStudents[i].name,
                          cls |-> ReportStudents[i].cls,
                          section |-> ReportStudents[i].section,
                          fileName |-> HwPy, ext |-> Extension(HwPy),
                          filePath |-> FilePath(ReportStudents[i].name,
                                                ReportStudents[i].cls,
                                                ReportStudents[i].section, HwPy)])]

ReportScores == <<72, 100, 59, 90>>
MaxReportMarks == 3

\* the mark lists of at most MaxReportMarks marks, one per submission, in
\* every order
ReportMarkLists ==
    LET ids == 1..Len(ReportSubmissions)
        lists == UNION {[1..n -> ids] : n \in 0..MaxReportMarks}
        oneEach == {l \in lists : \A i, j \in 1..Len(l) : i # j => l[i] # l[j]}
    IN  {[k \in 1..Len(l) |-> MarkRow(l[k], ReportSubmissions[l[k]], ReportScores[l[k]])] :
            l \in oneEach}

InitReport ==
    /\ InitSignedIn
    /\ formData = [s \in Submitters |-> EmptyForm]
    /\ uploadedFile = [s \in Submitters |-> None]
    /\ errors = [s \in Submitters |-> NoErrors]
    /\ isSubmitting = [s \in Submitters |-> FALSE]
    /\ successMessage = [s \in Submitters |-> NoMessage]
    /\ errorMessage = [s \in Submitters |-> NoMessage]
    /\ pc = [s \in Submitters |-> "idle"]
    /\ req = [s \in Submitters |-> NoRequest]
    /\ lastEvent = Event("admin", "none", None)
    /\ attempt = [s \in Submitters |-> NoAttempt]
    /\ rowMark = 0
    /\ tableGrade = NotRendered
    /\ reportGrade = NotRendered
    /\ submissionsTable = ReportSubmissions
    /\ storageObjects = {}
    /\ submissions = Reverse(ReportSubmissions)
    /\ marks \in ReportMarkLists
    /\ marksTable = Reverse(marks)
    /\ selectedSubmission = None
    /\ fileContent = ""
    /\ markInput = <<>>
    /\ showPreviewModal = FALSE
    /\ toast = None
    /\ savePc = "idle"
    /\ saveReq = None
    /\ previewPc = None
    /\ saveLog = None
    /\ classFilter = <<>>
    /\ sectionFilter = <<>>
    /\ tableRows = FilteredMarks(marks, <<>>, <<>>)
    /\ report = None
    /\ drawn = <<>>
    /\ InitFeedIdle
    /\ InitRegistryIdle

NextReport ==
    \/ \E v \in ClassOptions : setClassFilter(v)
    \/ \E v \in SectionOptions : setSectionFilter(v)
    \/ clearFilters
    \/ generatePDF

SpecReport == InitReport /\ [][NextReport]_vars

\* two students, with the same data or not, submit while the administrator
\* signs in
InitFeed ==
    /\ InitSignedOut
    /\ formData \in FilledForms
    /\ uploadedFile = [s \in Submitters |->
           Some([file |-> File(HwPy, 1024, "c1"), name |-> HwPy])]
    /\ errors = [s \in Submitters |-> [NoErrors EXCEPT !.file = ""]]
    /\ InitIdle
    /\ InitStore
    /\ InitAdmin

NextFeed ==
    \/ \E s \in Submitters : handleSubmitStep(s)
    \/ adminSignedIn
    \/ channelJoined
    \/ fetchSubmissionsQuery
    \/ fetchSubmissionsOk
    \/ fetchSubmissionsError
    \/ feedDeliver

SpecFeed == InitFeed /\ [][NextFeed]_vars

\* the marks of one class and section, then the marks of another: as many
\* rows as fill a page and more
MaxFirstGroup == 26
MaxSecondGroup == 2

LayoutSubmissions(n1, n2) ==
    [i \in 1..(n1 + n2) |->
        SubmissionRow(i, [name |-> NameAsha, cls |-> Class10,
                          section |-> IF i <= n1 THEN SectionA ELSE SectionB,
                          fileName |-> HwPy, ext |-> Extension(HwPy),
                          filePath |-> FilePath(NameAsha, Class10,
                                                IF i <= n1 THEN SectionA ELSE SectionB,
                                                HwPy)])]

InitLayout ==
    /\ InitSignedIn
    /\ formData = [s \in Submitters |-> EmptyForm]
    /\ uploadedFile = [s \in Submitters |-> None]
    /\ errors = [s \in Submitters |-> NoErrors]
    /\ InitIdle
    /\ storageObjects = {}
    /\ \E n1 \in 1..MaxFirstGroup, n2 \in 0..MaxSecondGroup :
          /\ submissionsTable = LayoutSubmissions(n1, n2)
          /\ marks = [i \in 1..(n1 + n2) |-> MarkRow(i, submissionsTable[i], 72)]
    /\ submissions = Reverse(submissionsTable)
    /\ marksTable = Reverse(marks)
    /\ selectedSubmission = None
    /\ fileContent = ""
    /\ markInput = <<>>
    /\ showPreviewModal = FALSE
    /\ toast = None
    /\ savePc = "idle"
    /\ saveReq = None
    /\ previewPc = None
    /\ saveLog = None

NextLayout ==
    \/ \E v \in SectionOptions : setSectionFilter(v)
    \/ clearFilters
    \/ generatePDF

SpecLayout == InitLayout /\ [][NextLayout]_vars

\* the administrator opens the previews of two submissions, the second
\* while the download of the first is under way
NextPreview ==
    \/ \E i \in 1..Len(submissions) : previewFileBegin(i)
    \/ \E i \in 1..Len(submissions) : previewFileOverlap(i)
    \/ previewDownloadError
    \/ previewNoData
    \/ previewDownloadOk
    \/ previewThrows
    \/ closePreviewModal
    \/ \E v \in {<<"7", "2">>} : setMarkInput(v)

SpecPreview == InitMarks /\ [][NextPreview]_vars

\* the answer of the call handleSubmit awaits, or its rejection
handleSubmitAnswer(s) ==
    \/ queryError(s)
    \/ queryDuplicate(s)
    \/ queryClear(s)
    \/ uploadExists(s)
    \/ uploadError(s)
    \/ uploadOk(s)
    \/ insertError(s)
    \/ insertOk(s)
    \/ handleSubmitThrows(s)

\* submitters press submit, again after a failure too; every awaited call
\* is answered or rejects
NextAttempt ==
    \E s \in Submitters :
        \/ handleSubmitBegin(s)
        \/ handleSubmitAnswer(s)

SpecAttempt ==
    /\ InitSubmit
    /\ [][NextAttempt]_vars
    /\ \A s \in Submitters : WF_vars(handleSubmitAnswer(s))

\* two students submit while the administrator signs in and out
NextSession ==
    \/ \E s \in Submitters : handleSubmitStep(s)
    \/ adminSignedIn
    \/ signInBegin
    \/ signInOk
    \/ signInError
    \/ signOutBegin
    \/ signOutOk
    \/ signOutThrows
    \/ channelJoined
    \/ fetchSubmissionsQuery
    \/ fetchSubmissionsOk
    \/ fetchSubmissionsError
    \/ feedDeliver

SpecSession == InitFeed /\ [][NextSession]_vars

\* one submission has been accepted; the administrator signs in, and the
\* calls of the Admin page answer or fail
NotifyMarkInputs == {<<"7", "2">>, <<"1", "0", "1">>}

InitNotify ==
    /\ InitSignedOut
    /\ formData = [s \in Submitters |-> EmptyForm]
    /\ uploadedFile = [s \in Submitters |-> None]
    /\ errors = [s \in Submitters |-> NoErrors]
    /\ InitIdle
    /\ submissionsTable = <<SubmissionRow(1, GradedRequests[1])>>
    /\ storageObjects =
           {[path |-> GradedRequests[1].filePath, file |-> GradedRequests[1].file]}
    /\ InitAdmin

NextNotify ==
    \/ signInBegin
    \/ signInOk
    \/ signInError
    \/ fetchSubmissionsQuery
    \/ fetchSubmissionsOk
    \/ fetchSubmissionsError
    \/ fetchMarksOk
    \/ fetchMarksError
    \/ fetchFileExtensionsOk
    \/ fetchFileExtensionsError
    \/ \E i \in 1..Len(submissions) : previewFileBegin(i)
    \/ previewDownloadError
    \/ previewDownloadOk
    \/ previewThrows
    \/ closePreviewModal
    \/ \E v \in NotifyMarkInputs : setMarkInput(v)
    \/ saveMarkBegin
    \/ saveUpsertError
    \/ saveUpsertOk
    \/ saveFetchOk
    \/ saveFetchError
    \/ toggleExtensionBegin(1)
    \/ toggleExtensionStore
    \/ toggleExtensionOk
    \/ toggleExtensionError
    \/ toastTimeout

\* the timer of the toast effect runs out when no other toast is set before
SpecNotify == InitNotify /\ [][NextNotify]_vars /\ WF_vars(toastTimeout)

\* the Admin page, whose fetchFileExtensions is under way, and a
\* FileExtensionManager work on the registry
InitRegistry ==
    /\ user = Some("admin")
    /\ authPc = "idle"
    /\ marksPc = "done"
    /\ extPc = "sent"
    /\ formData = [s \in Submitters |-> EmptyForm]
    /\ uploadedFile = [s \in Submitters |-> None]
    /\ errors = [s \in Submitters |-> NoErrors]
    /\ InitIdle
    /\ InitStore
    /\ InitAdmin

NextRegistry ==
    \/ tick
    \/ fetchFileExtensionsOk
    \/ \E i \in 1..Len(fileExtensions) : toggleExtensionBegin(i)
    \/ toggleExtensionStore
    \/ toggleExtensionOk
    \/ toggleExtensionError
    \/ fetchExtensionsOk
    \/ fetchExtensionsError
    \/ \E i \in 1..Len(extensions) : managerToggleExtension(i)
    \/ saveChangesBegin
    \/ saveChangesUpdateOk
    \/ saveChangesUpdateError
    \/ saveChangesDone

SpecRegistry == InitRegistry /\ [][NextRegistry]_vars

(***************************************************************************)
(* Claims                                                                  *)
(***************************************************************************)
Finished(s) == pc[s] = "idle" /\ attempt[s].outcome \notin {"none", "invalid"}

SubmissionTuple(row) == <<row.student_name, row.class, row.section, row.filename>>

\* C2: no two rows of the submissions table have the same (student name,
\* class, section, filename), also when submitters with the same data run
\* handleSubmit concurrently.
C2_UniqueSubmissionTuples ==
    \A i, j \in 1..Len(submissionsTable) :
        i # j => SubmissionTuple(submissionsTable[i]) # SubmissionTuple(submissionsTable[j])

\* two submitters with the same data both passed the duplicate query; one
\* succeeded and the other was stopped by the storage
C2_Witness ==
    \E s, u \in Submitters :
        /\ s # u
        /\ attempt[s].outcome = "success"
        /\ attempt[u].outcome = "uploadExists"
        /\ ~attempt[u].dupAtStart
        /\ attempt[u].writes = 1
        /\ \E i \in 1..Len(submissionsTable) :
              SubmissionTuple(submissionsTable[i]) =
                  <<formData[u].name, formData[u].class, formData[u].section,
                    uploadedFile[u][1].name>>

\* C3: every row of the marks table has an integer mark in 0..100, and no two
\* rows have the same submission id.
C3_MarksInRangeOnePerSubmission ==
    /\ \A i \in 1..Len(marksTable) :
          marksTable[i].marks \in Int /\ marksTable[i].marks \in 0..100
    /\ \A i, j \in 1..Len(marksTable) :
          i # j => marksTable[i].submission_id # marksTable[j].submission_id

\* both submissions are marked, one of them for the second time and with the
\* largest mark
C3_Witness ==
    /\ Len(marksTable) = 2
    /\ saveLog # None
    /\ saveLog[1].prev = "changed"
    /\ saveLog[1].value = 100

\* text that is an integer literal: an optional sign and decimal digits only
IsIntegerText(text) ==
    LET body == IF text # <<>> /\ Head(text) \in {"-", "+"} THEN Tail(text) ELSE text
    IN  body # <<>> /\ \A i \in 1..Len(body) : body[i] \in Digits

ValidMarkText(text) ==
    /\ IsIntegerText(text)
    /\ ~parseInt(text).nan
    /\ parseInt(text).value \in 0..100

\* C4: saveMark sends a write to the marks table only when the mark input is
\* an integer in 0..100; any other input gets the validation message.
C4_OnlyIntegerInputWritten ==
    [][(savePc = "idle" /\ savePc' = "upsert") => ValidMarkText(markInput)]_vars

\* C5: when saveMark stores for a submission the score that the save before
\* it stored for the same submission, the marks table holds exactly one row
\* for that submission, with that score.
C5_SameScoreTwiceOneRow ==
    (saveLog # None /\ saveLog[1].prev = "same") =>
        LET rows == {i \in 1..Len(marksTable) :
                        marksTable[i].submission_id = saveLog[1].sub}
        IN  /\ Cardinality(rows) = 1
            /\ \A i \in rows : marksTable[i].marks = saveLog[1].value

C5_Witness ==
    /\ saveLog # None
    /\ saveLog[1].prev = "same"
    /\ saveLog[1].fetched = "yes"
    /\ Len(marksTable) = 2

ListHolds(list, id, value) ==
    /\ FindMark(list, id) # None
    /\ FindMark(list, id)[1].marks = value

SpecifiedGrade(m) ==
    CASE m \in 90..100 -> "A+"
      [] m \in 80..89 -> "A"
      [] m \in 70..79 -> "B"
      [] m \in 60..69 -> "C"
      [] m \in 0..59 -> "F"

\* C7: for a mark in 0..100 the grade written in the report and the grade
\* shown in the results table are both the grade of the table A+ >= 90,
\* A >= 80, B >= 70, C >= 60, F below, and so are equal.
C7_GradeTable ==
    /\ reportGrade # NotRendered => reportGrade = SpecifiedGrade(rowMark)
    /\ tableGrade # NotRendered => tableGrade = SpecifiedGrade(rowMark)
    /\ (reportGrade # NotRendered /\ tableGrade # NotRendered) =>
          reportGrade = tableGrade

C7_Witness ==
    /\ rowMark = 90
    /\ reportGrade = "A+"
    /\ tableGrade = "A+"

SelectedFile == lastEvent.file[1]
Stored(s, file) == uploadedFile[s] # None /\ uploadedFile[s][1].file = file
FormAccepted(s) ==
    /\ errors[s] = NoErrors
    /\ isSubmitting[s]
    /\ pc[s] = "query"

\* C8, as stated: a file named *.py of at most 5 MiB is accepted by
\* validateFile, and with it every form with a non-empty name, class and
\* section is accepted by validateForm with no field error.
C8_NonEmptyFieldsAccepted ==
    /\ (lastEvent.op = "select" /\ EndsWith(SelectedFile.name, PyExtension)
            /\ SelectedFile.size <= 5 * 1024 * 1024) =>
          /\ Stored(lastEvent.who, SelectedFile)
          /\ ~Truthy(errors[lastEvent.who].file)
    /\ (lastEvent.op = "submit"
            /\ formData[lastEvent.who].name # <<>>
            /\ formData[lastEvent.who].class # <<>>
            /\ formData[lastEvent.who].section # <<>>
            /\ uploadedFile[lastEvent.who] # None) =>
          FormAccepted(lastEvent.who)

\* C8, amended: the same, for every form whose name, class and section are
\* not blank (non-empty once surrounding white space is trimmed).
C8_NonBlankFieldsAccepted ==
    /\ (lastEvent.op = "select" /\ EndsWith(SelectedFile.name, PyExtension)
            /\ SelectedFile.size <= 5 * 1024 * 1024) =>
          /\ Stored(lastEvent.who, SelectedFile)
          /\ ~Truthy(errors[lastEvent.who].file)
    /\ (lastEvent.op = "submit"
            /\ Trim(formData[lastEvent.who].name) # <<>>
            /\ Trim(formData[lastEvent.who].class) # <<>>
            /\ Trim(formData[lastEvent.who].section) # <<>>
            /\ uploadedFile[lastEvent.who] # None) =>
          FormAccepted(lastEvent.who)

\* a form holding a file of exactly 5 MiB has just been accepted
C8_Witness ==
    /\ lastEvent.op = "submit"
    /\ FormAccepted(lastEvent.who)
    /\ uploadedFile[lastEvent.who] # None
    /\ uploadedFile[lastEvent.who][1].file.size = 5 * 1024 * 1024

\* C9: a file whose name does not end with ".py" is refused by validateFile
\* with the extension message on the file field, whatever its size, and the
\* selected upload never is such a file.
C9_WrongExtensionRefused ==
    /\ \A s \in Submitters :
          uploadedFile[s] # None =>
              /\ EndsWith(uploadedFile[s][1].name, PyExtension)
              /\ EndsWith(uploadedFile[s][1].file.name, PyExtension)
    /\ (lastEvent.op = "select" /\ ~EndsWith(SelectedFile.name, PyExtension)) =>
          /\ errors[lastEvent.who].file = OnlyPyMsg
          /\ ~Stored(lastEvent.who, SelectedFile)

\* a file over the ceiling without the extension was refused while a file
\* selected before it stays selected
C9_Witness ==
    /\ lastEvent.op = "select"
    /\ ~EndsWith(SelectedFile.name, PyExtension)
    /\ SelectedFile.size > 5 * 1024 * 1024
    /\ errors[lastEvent.who].file = OnlyPyMsg
    /\ uploadedFile[lastEvent.who] # None

\* C10, as stated: a file larger than 5 MiB is refused by validateFile with
\* the size message, whatever its extension.
C10_OversizeGetsSizeMessage ==
    (lastEvent.op = "select" /\ SelectedFile.size > 5 * 1024 * 1024) =>
        /\ ~Stored(lastEvent.who, SelectedFile)
        /\ errors[lastEvent.who].file = SizeMsg

\* C10, amended: a file larger than 5 MiB is refused by validateFile whatever
\* its extension; the message is the size message when the name ends with
\* ".py" and the extension message when it does not.
C10_OversizeRefused ==
    (lastEvent.op = "select" /\ SelectedFile.size > 5 * 1024 * 1024) =>
        /\ ~Stored(lastEvent.who, SelectedFile)
        /\ errors[lastEvent.who].file =
              IF EndsWith(SelectedFile.name, PyExtension) THEN SizeMsg ELSE OnlyPyMsg

C10_Witness ==
    /\ lastEvent.op = "select"
    /\ SelectedFile.size > 5 * 1024 * 1024
    /\ EndsWith(SelectedFile.name, PyExtension)
    /\ errors[lastEvent.who].file = SizeMsg
    /\ ~Stored(lastEvent.who, SelectedFile)

AllIdle == \A s \in Submitters : pc[s] = "idle"
EndedWithError(s) ==
    Finished(s) /\ attempt[s].outcome # "success"

StoreWhole ==
    /\ \A o \in storageObjects :
          \E i \in 1..Len(submissionsTable) : submissionsTable[i].file_path = o.path
    /\ \A i \in 1..Len(submissionsTable) :
          \E o \in storageObjects : o.path = submissionsTable[i].file_path

\* C11: once handleSubmit has ended with an error and no submission is under
\* way, every stored file has its submission record and every record has its
\* stored file; a saveMark that ends with an error leaves the marks table
\* as it was.
C11_NoPartialWrite ==
    /\ []((AllIdle /\ \E s \in Submitters : EndedWithError(s)) => StoreWhole)
    /\ [][(savePc = "upsert" /\ savePc' = "idle") => marksTable' = marksTable]_vars

\* C14: a handleSubmit whose duplicate query fails ends with the "Failed to
\* validate submission" message, which is not the message of a duplicate,
\* and has sent no storage upload and no insert.
C14_QueryFailureReported ==
    \A s \in Submitters :
        attempt[s].outcome = "queryError" =>
            /\ pc[s] = "idle"
            /\ errorMessage[s] = ValidateFailedMsg
            /\ errorMessage[s] # FileExistsMsg
            /\ successMessage[s] = NoMessage
            /\ attempt[s].writes = 0

\* the query of a submission that is no duplicate has failed
C14_Witness ==
    \E s \in Submitters :
        /\ Finished(s)
        /\ attempt[s].outcome = "queryError"
        /\ ~attempt[s].dupAtStart
        /\ errorMessage[s] = ValidateFailedMsg
        /\ submissionsTable # <<>>

FormTuple(s) ==
    <<formData[s].name, formData[s].class, formData[s].section, uploadedFile[s][1].name>>
FormPath(s) ==
    FilePath(formData[s].name, formData[s].class, formData[s].section,
             uploadedFile[s][1].name)

\* C18: submissions under way with different (student name, class, section,
\* filename) have different storage paths, and a submission the storage has
\* refused as existing finds under its path only records of its own tuple.
C18_DistinctTuplesDistinctPaths ==
    /\ \A s, u \in Submitters :
          (req[s] # NoRequest /\ req[u] # NoRequest
              /\ <<req[s][1].name, req[s][1].cls, req[s][1].section, req[s][1].fileName>>
                 # <<req[u][1].name, req[u][1].cls, req[u][1].section, req[u][1].fileName>>)
          => req[s][1].filePath # req[u][1].filePath
    /\ \A s \in Submitters :
          (Finished(s) /\ attempt[s].outcome = "uploadExists") =>
              \A i \in 1..Len(submissionsTable) :
                  submissionsTable[i].file_path = FormPath(s) =>
                      SubmissionTuple(submissionsTable[i]) = FormTuple(s)

Blank(f, s) ==
    IF f = "file" THEN uploadedFile[s] = None ELSE formData[s][f] = <<>>
BlankTrimmed(f, s) ==
    IF f = "file" THEN uploadedFile[s] = None ELSE Trim(formData[s][f]) = <<>>
FormFields == {"name", "class", "section", "file"}
NoCallMade(s) ==
    /\ pc[s] = "idle"
    /\ ~isSubmitting[s]
    /\ attempt[s].outcome = "invalid"
    /\ attempt[s].writes = 0

\* C20, as stated: right after submit, the fields with an error are exactly
\* the fields that are empty or missing, and when there is one the form is
\* refused with no request sent.
C20_ErrorPerEmptyField ==
    lastEvent.op = "submit" =>
        /\ \A f \in FormFields :
              Truthy(errors[lastEvent.who][f]) <=> Blank(f, lastEvent.who)
        /\ (\E f \in FormFields : Blank(f, lastEvent.who)) => NoCallMade(lastEvent.who)

\* C20, amended: the same, where a name, class or section counts as violated
\* when it is empty once surrounding white space is trimmed.
C20_ErrorPerBlankField ==
    lastEvent.op = "submit" =>
        /\ \A f \in FormFields :
              Truthy(errors[lastEvent.who][f]) <=> BlankTrimmed(f, lastEvent.who)
        /\ (\E f \in FormFields : BlankTrimmed(f, lastEvent.who))
              <=> NoCallMade(lastEvent.who)

\* two fields are violated together and two are not
C20_Witness ==
    /\ lastEvent.op = "submit"
    /\ Truthy(errors[lastEvent.who].section)
    /\ Truthy(errors[lastEvent.who].file)
    /\ ~Truthy(errors[lastEvent.who].name)
    /\ ~Truthy(errors[lastEvent.who].class)
    /\ NoCallMade(lastEvent.who)

ShownInput == FilteredMarks(marks, classFilter, sectionFilter)

\* C15: a generatePDF step taken while the filtered mark list is empty shows
\* the "No results to download" error and leaves the saved document as it
\* was: no document is built or saved.
C15_EmptyReportRefused ==
    [][(lastEvent'.op = "generate" /\ Len(ShownInput) = 0) =>
           /\ report' = report
           /\ toast' = Some(Toast(NoResultsMsg, "error"))]_vars

\* marks are loaded, the filters leave none of them, and the report was asked
C15_Witness ==
    /\ lastEvent.op = "generate"
    /\ marks # <<>>
    /\ Len(ShownInput) = 0
    /\ toast = Some(Toast(NoResultsMsg, "error"))
    /\ report = None

FirstIndex(list, key) ==
    CHOOSE i \in 1..Len(list) :
        /\ GroupKey(list[i]) = key
        /\ \A j \in 1..(i - 1) : GroupKey(list[j]) # key

\* C17: the document generatePDF has just saved holds one group per key
\* "Class {class} - Section {section}" of its input, the groups in the order
\* in which their keys first occur in the input, each group with the marks
\* of its key in their input order, and every input mark in one group only.
C17_GroupsInFirstSeenOrder ==
    (lastEvent.op = "generate" /\ Len(ShownInput) > 0) =>
        /\ report # None
        /\ LET doc == report[1]
               input == ShownInput
           IN  /\ \A i, j \in 1..Len(doc) : i # j => doc[i].heading # doc[j].heading
               /\ \A k \in 1..Len(input) :
                     \E i \in 1..Len(doc) : doc[i].heading = GroupKey(input[k])
               /\ \A i \in 1..Len(doc) :
                     LET mine == SelectSeq(input, LAMBDA m : GroupKey(m) = doc[i].heading)
                     IN  /\ mine # <<>>
                         /\ Len(doc[i].lines) = Len(mine)
                         /\ \A n \in 1..Len(mine) : doc[i].lines[n] = ReportLine(mine[n])
               /\ \A i, j \in 1..Len(doc) :
                     i < j => FirstIndex(input, doc[i].heading)
                                  < FirstIndex(input, doc[j].heading)
               /\ \A k \in 1..Len(input) :
                     Cardinality({<<i, n>> \in (1..Len(doc)) \X (1..Len(input)) :
                                     /\ n <= Len(doc[i].lines)
                                     /\ doc[i].lines[n].submission_id
                                            = input[k].submission_id}) = 1

\* the marks of one group are apart in the input, and the group that comes
\* first is not the first in alphabetical order
C17_Witness ==
    /\ lastEvent.op = "generate"
    /\ report # None
    /\ Len(ShownInput) = 3
    /\ GroupKey(ShownInput[1]) = GroupKey(ShownInput[3])
    /\ GroupKey(ShownInput[1]) # GroupKey(ShownInput[2])
    /\ ShownInput[1].section = SectionB
    /\ ShownInput[2].section = SectionA
    /\ ShownInput[2].class = ShownInput[1].class
    /\ Len(report[1]) = 2
    /\ Len(report[1][1].lines) = 2
    /\ report[1][1].heading = GroupKey(ShownInput[1])

Matches(mark) ==
    /\ classFilter = <<>> \/ mark.class = classFilter
    /\ sectionFilter = <<>> \/ mark.section = sectionFilter
MatchingIndices == {i \in 1..Len(marks) : Matches(marks[i])}

\* C19: the rows of the results table, and the lines of a report just made,
\* are exactly the marks whose class equals the class filter and whose
\* section equals the section filter, an empty filter matching every mark;
\* the rows are in the order of the mark list.
C19_FilteredExactly ==
    /\ Len(tableRows) = Cardinality(MatchingIndices)
    /\ \A i \in MatchingIndices :
          tableRows[Cardinality({j \in MatchingIndices : j <= i})] = marks[i]
    /\ (lastEvent.op = "generate" /\ MatchingIndices # {}) =>
          /\ report # None
          /\ {report[1][i].lines[n].submission_id :
                  <<i, n>> \in {<<i, n>> \in (1..Len(report[1])) \X (1..Len(marks)) :
                                   n <= Len(report[1][i].lines)}}
               = {marks[i].submission_id : i \in MatchingIndices}

\* the class filter is set and the section filter is not: the rows of both
\* sections of the class are shown, one mark is left out
C19_Witness ==
    /\ classFilter = Class10
    /\ sectionFilter = <<>>
    /\ Len(marks) = 3
    /\ Len(tableRows) = 2
    /\ tableRows[1].section # tableRows[2].section
    /\ tableRows[1] = marks[2]
    /\ tableRows[2] = marks[3]

\* C12: once fetchSubmissions has ended and every event on its way has been
\* handled, the administrator's submission list holds every submission the
\* fetch returned and every submission an event delivered.
C12_NothingDroppedByMerge ==
    (fetchPc = "done" /\ feedQueue = <<>>) =>
        (feedLog.fetched \cup feedLog.delivered) \subseteq Ids(submissions)

\* C13: no submission id is twice in the administrator's submission list.
C13_NoIdTwiceInList ==
    \A i, j \in 1..Len(submissions) :
        i # j => submissions[i].id # submissions[j].id

\* the rows of the table with the given id
RowsOf(table, id) == {i \in 1..Len(table) : table[i].id = id}

\* the last update of the table left one row of its id, with its value, and
\* left every flag as it was when the row had that value already
LastUpdateKept ==
    regLog # None =>
        /\ Cardinality(RowsOf(extTable, regLog[1].id)) = 1
        /\ \A i \in RowsOf(extTable, regLog[1].id) :
               extTable[i].is_enabled = regLog[1].value
        /\ regLog[1].was = {regLog[1].value} =>
               Flags(extTable) = regLog[1].flagsBefore

\* the same update done twice leaves the flags the update done once leaves
TwiceAsOnce ==
    \A id \in ExtIds, v \in BOOLEAN, n1 \in 0..MaxClock :
        \A n2 \in n1..MaxClock :
            Flags(UpdateEnabled(UpdateEnabled(extTable, id, v, n1), id, v, n2))
                = Flags(UpdateEnabled(extTable, id, v, n1))

\* no step adds or removes a row or takes the time stamp of a row back
StampsGoUp ==
    /\ Len(extTable') = Len(extTable)
    /\ \A i \in 1..Len(extTable) :
           /\ extTable'[i].id = extTable[i].id
           /\ extTable'[i].updated_at >= extTable[i].updated_at

\* C16: setting the enabled flag of an extension to the value it has
\* succeeds and leaves exactly one row of that extension with that value; the
\* same update applied twice leaves the registry as applying it once does;
\* the updated_at of a row never decreases.
C16_SetEnabledIdempotent ==
    /\ [](LastUpdateKept /\ TwiceAsOnce)
    /\ [][StampsGoUp]_vars

\* an update wrote the value its row had, at a later time than the row's last
C16_Witness ==
    /\ regLog # None
    /\ regLog[1].was = {regLog[1].value}
    /\ \E i \in RowsOf(extTable, regLog[1].id) : extTable[i].updated_at > 0

\* C25: whenever previewFile has completed for a submission, on the success
\* path, the download-error path and the no-data path alike, the mark input
\* holds the mark of that submission, or is empty when it has none.
C25_MarkInputOfPreviewed ==
    [][(Len(previewPc) = 1 /\ previewPc' = None) =>
          markInput' \in {previewPc[1].markText,
                          MarkInputFor(marks', previewPc[1].sub)}]_vars

\* a step that ends a run of handleSubmit of s
RunEnds(s) == pc[s] # "idle" /\ pc'[s] = "idle"

\* a press of submit that validateForm stops
ValidationStops(s) ==
    /\ lastEvent' = Event(s, "submit", None)
    /\ pc[s] = "idle"
    /\ pc'[s] = "idle"

\* the form is reset by the end of a successful run and by nothing else of
\* handleSubmit
ResetOnSuccessOnly ==
    \A s \in Submitters :
        /\ RunEnds(s) =>
              /\ ~isSubmitting'[s]
              /\ IF attempt'[s].outcome = "success"
                 THEN formData'[s] = EmptyForm /\ uploadedFile'[s] = None
                 ELSE formData'[s] = formData[s] /\ uploadedFile'[s] = uploadedFile[s]
        /\ ValidationStops(s) =>
              /\ ~isSubmitting'[s]
              /\ formData'[s] = formData[s]
              /\ uploadedFile'[s] = uploadedFile[s]

\* C27: every run of handleSubmit ends with isSubmitting false, on the
\* validation stop, the duplicate, the query, upload and insert errors, a
\* thrown exception and success alike; the fields and the selected file are
\* reset on success only and left as they are on every failure.
C27_SubmitAlwaysEnds ==
    /\ [](\A s \in Submitters : isSubmitting[s] <=> pc[s] # "idle")
    /\ [][ResetOnSuccessOnly]_vars
    /\ \A s \in Submitters : isSubmitting[s] ~> ~isSubmitting[s]

\* a run ended in the catch block: the button is enabled and the form kept
C27_Witness ==
    \E s \in Submitters :
        /\ attempt[s].outcome = "thrown"
        /\ pc[s] = "idle"
        /\ ~isSubmitting[s]
        /\ errorMessage[s] = UploadFailedMsg
        /\ formData[s] # EmptyForm
        /\ uploadedFile[s] # None

\* C26: after an attempt failed at the insert, its upload having succeeded,
\* a retry of the same name, class, section and file that no store failure
\* stops completes with the success message (the run that shows it is the
\* one that inserts the row of that data).
C26_RetrySucceeds ==
    \A s \in Submitters :
        (/\ attempt[s].retry
         /\ pc[s] = "idle"
         /\ attempt[s].outcome \notin {"queryError", "uploadError", "insertError",
                                       "thrown"})
        => /\ attempt[s].outcome = "success"
           /\ successMessage[s] = SubmissionOkMsg

\* what validateFile requires of a file
PyWithinCeiling(file) == EndsWith(file.name, PyExtension) /\ file.size <= MaxFileBytes

\* C28: a selected upload has a name ending in ".py" and a size of at most
\* 5 MiB; selecting an invalid file never replaces the file selected before;
\* only such a file is ever passed to the storage upload.
C28_SelectedFileValid ==
    /\ [](\A s \in Submitters :
            /\ uploadedFile[s] # None =>
                  /\ PyWithinCeiling(uploadedFile[s][1].file)
                  /\ uploadedFile[s][1].name = uploadedFile[s][1].file.name
            /\ pc[s] \in {"upload", "insert"} => PyWithinCeiling(req[s][1].file))
    /\ [][\A s \in Submitters :
            (/\ lastEvent'.who = s
             /\ lastEvent'.op = "select"
             /\ ~PyWithinCeiling(lastEvent'.file[1]))
            => uploadedFile'[s] = uploadedFile[s]]_vars

\* an invalid file was selected while a valid file was held, which is kept
C28_Witness ==
    \E s \in Submitters :
        /\ lastEvent.who = s
        /\ lastEvent.op = "select"
        /\ ~PyWithinCeiling(lastEvent.file[1])
        /\ uploadedFile[s] # None
        /\ PyWithinCeiling(uploadedFile[s][1].file)
        /\ errors[s].file \in {OnlyPyMsg, SizeMsg}

\* the flag the table holds for each row of the manager is the row's flag
StoredAsEdited(table, list) ==
    \A i \in 1..Len(list) : \A j \in RowsOf(table, list[i].id) :
        table[j].is_enabled = list[i].is_enabled

\* C30: saveChanges is all-or-nothing: when the update of an extension
\* fails, the stored flag of every extension is what it was when saveChanges
\* began; when it reports success, the stored flag of every extension is its
\* locally edited flag.
C30_SaveAllOrNothing ==
    [][(savingPc # None /\ savingPc' = None) =>
          IF message' = Some(Message("error", ManagerSaveFailedText))
          THEN Flags(extTable') = savingPc[1].before
          ELSE StoredAsEdited(extTable', extensions')]_vars

\* C22: whenever the cursor exceeds 280 before a row, a new page is started
\* and the cursor reset to 20 before the row is drawn, so every mark row is
\* drawn at a cursor of at most 280; each group heading first advances the
\* cursor by 5 before it is drawn.
C22_RowsWithinPageLimit ==
    \A i \in 1..Len(drawn) :
        /\ drawn[i].kind = "row" =>
              /\ drawn[i].y <= PageLimit
              /\ IF drawn[i].before > PageLimit
                 THEN drawn[i].y = PageTop /\ drawn[i].page = drawn[i - 1].page + 1
                 ELSE drawn[i].y = drawn[i].before /\ drawn[i].page = drawn[i - 1].page
        /\ drawn[i].kind = "heading" =>
              /\ drawn[i].y = drawn[i].before + HeadingReserve
              /\ drawn[i].before =
                    IF drawn[i - 1].kind = "row"
                    THEN drawn[i - 1].y + RowStep + GroupGap
                    ELSE drawn[i - 1].y + TimestampStep

\* a report whose rows went over the limit: a row opened the second page
C22_Witness ==
    /\ report # None
    /\ \E i \in 1..Len(drawn) :
          /\ drawn[i].kind = "row"
          /\ drawn[i].before > PageLimit
          /\ drawn[i].y = PageTop
          /\ drawn[i].page = 2
    /\ \E i \in 1..Len(drawn) : drawn[i].kind = "heading" /\ drawn[i].page = 1

\* C23: for every list of marks, each group heading and each table header
\* of the report is drawn at a cursor inside the page, not beyond the A4
\* height of 297 mm.
C23_HeadingsInsidePage ==
    \A i \in 1..Len(drawn) :
        drawn[i].kind \in {"heading", "header"} => drawn[i].y <= PageHeight

\* the content of the stored file of a submission
ContentOf(sub) ==
    (CHOOSE o \in storageObjects : o.path = sub.file_path).file.content

\* C24: when the previews of two submissions are opened in quick succession
\* and the two downloads complete in either order, the file content shown in
\* the modal is the content of the selected submission, the one the header
\* names and saveMark writes to.
C24_ContentOfSelected ==
    (/\ previewPc = None
     /\ showPreviewModal
     /\ selectedSubmission # None
     /\ fileContent \notin {"", DownloadFailedText, UnexpectedText})
    => fileContent = ContentOf(selectedSubmission[1])

(***************************************************************************)
(* C29: the subscription to the change feed exists exactly while an        *)
(* administrator is signed in, and no INSERT event is merged into the      *)
(* list of submissions while user is null.                                 *)
(***************************************************************************)
SubscribedWhileSignedIn == (user # None) <=> (channel # "closed")

NoMergeSignedOut == user = None => feedLog'.delivered = feedLog.delivered

C29_FeedOnlyWhileSignedIn ==
    /\ []SubscribedWhileSignedIn
    /\ [][NoMergeSignedOut]_vars

(***************************************************************************)
(* C21: every toast shown to the administrator is cleared again by the     *)
(* timer, and no error path of signIn, of a fetch, of saveMark, of         *)
(* toggleExtension or of previewFile ends the session or leaves a call     *)
(* under way: the call that failed has ended and can be made again.        *)
(***************************************************************************)
\* the calls of the Admin page that are under way
Busy ==
    {c \in {"auth", "fetch", "marks", "ext", "save", "toggle"} :
        \/ c = "auth" /\ authPc # "idle"
        \/ c = "fetch" /\ fetchPc \in {"sent", "answered"}
        \/ c = "marks" /\ marksPc = "sent"
        \/ c = "ext" /\ extPc = "sent"
        \/ c = "save" /\ savePc # "idle"
        \/ c = "toggle" /\ togglePc # None}

ErrorToast(x) == x # None /\ x[1].type = "error"

\* a step that shows an error toast: the session stays, and either the call
\* that failed has ended or the step is saveMark refusing the input, which
\* starts no call
ErrorToastEndsCall ==
    (toast' # toast /\ ErrorToast(toast')) =>
        /\ user' = user
        /\ Busy' \subseteq Busy
        /\ Busy' = Busy => toast'[1].message = EnterMarksMsg

\* a step in which previewFile ends with a warning: the session stays, no
\* preview is under way and the modal that shows the warning can be closed
PreviewWarningEndsCall ==
    (previewPc # None /\ previewPc' = None
        /\ fileContent' \in {DownloadFailedText, UnexpectedText}) =>
        /\ user' = user
        /\ showPreviewModal'

====
